---- MODULE Spec2Model ----
(***************************************************************************)
(* Receipt OCR pipeline: the recognition adapter (OCRService), the BullMQ  *)
(* queue 'ocr-processing', the worker processor that drives them and the   *)
(* extraction engine (parseReceiptText).                                   *)
(*                                                                         *)
(* The specifications of the module share its variables:                   *)
(*   SpecAdapter   one OCRService object used by concurrent extractData    *)
(*                 callers and by the shutdown handler's terminate().      *)
(*   Spec          the queue, the worker processor, the upload directory   *)
(*                 and the receipt records.                                *)
(*   SpecEnqueue   the job ids addOCRJob hands to the queue.               *)
(*   SpecShutdown  the worker process between a signal and its exit.       *)
(*   SpecParse     calls of parseReceiptText on a text and its words.      *)
(*   SpecLive      the running worker under fair scheduling.               *)
(* JavaScript runs each stretch of code between two awaits atomically, so  *)
(* every action below is one such stretch.  parseReceiptText is one        *)
(* synchronous call; strings are sequences of characters and regular       *)
(* expressions yield the match JavaScript's backtracking finds first.      *)
(* Amounts are kept in hundredths and the process runs in UTC.             *)
(***************************************************************************)
EXTENDS Integers, Sequences, FiniteSets, TLC

\* ---------------------------------------------------------------------
\* Bounds of the model
\* ---------------------------------------------------------------------
NumCallers == 2
NumTerminators == 1
MaxInits == 3

NumJobs == 3
MaxEnvEvents == 1

MaxAdds == 3
MaxNow == 2
NumSuffixes == 2

NumSignals == 1

MaxCalls == 2
MaxNewYears == 1

Callers == 1..NumCallers
Terminators == 1..NumTerminators
InitIds == 1..MaxInits

VARIABLES
  worker,          \* OCRService.worker: 0 is null, else the engine instance
  isInitializing,  \* OCRService.isInitializing
  initPromise,     \* OCRService.initPromise: 0 is null, else the attempt
  attempt,         \* state of each createWorker call / init promise
  engine,          \* state of each engine instance (instance p is made by attempt p)
  nextInit,        \* next unused attempt id
  cpc,             \* position of each extractData caller
  cwait,           \* the promise a caller awaits in `await this.initialize()`
  cused,           \* the instance a caller's recognize() runs on
  tpc,             \* position of each terminate() caller
  calledDuring     \* history: the pending createWorker calls during which terminate() was called

adapterVars == <<worker, isInitializing, initPromise, attempt, engine, nextInit,
                 cpc, cwait, cused, tpc, calledDuring>>

VARIABLES
  layout,          \* how the worker sees the upload directory (deployment)
  fs,              \* per upload: which of its two candidate paths exist
  record,          \* the Receipt row (with its Item rows) of each upload
  jobState,        \* BullMQ state of each job ("none": not created yet)
  waitList,        \* BullMQ wait list, oldest first
  attemptsStarted, \* job.attemptsStarted
  attemptsMade,    \* job.attemptsMade
  progress,        \* job.progress
  returnvalue,     \* job.returnvalue
  failedReason,    \* job.failedReason
  jpc,             \* position of the processor run of each job
  actualFilePath,  \* processor local: the path the attempt resolved
  extractedData,   \* processor local: result of ocrService.extractData
  attemptError,    \* the error thrown inside the try block of the attempt
  elapsed,         \* wall-clock time the recognition call has been pending
  reported,        \* milestones passed to job.updateProgress in this attempt
  fileVerified,    \* the attempt has passed the existsSync check
  replacedItems,   \* rows removed by the attempt's receipt.update (-1: no update)
  envEvents        \* infrastructure faults and API-side mutations so far

pipelineVars == <<layout, fs, record, jobState, waitList, attemptsStarted,
                  attemptsMade, progress, returnvalue, failedReason, jpc,
                  actualFilePath, extractedData, attemptError, elapsed, reported,
                  fileVerified, replacedItems, envEvents>>

VARIABLES
  now,             \* the reading of Date.now() in the API process (ms)
  issuedIds,       \* the job id each addOCRJob call got back, in call order
  queueIds         \* ids of the jobs the queue holds

enqueueVars == <<now, issuedIds, queueIds>>

VARIABLES
  shutdownPc,      \* position of each gracefulShutdown run of the worker process
  procExit         \* the worker process: "running", or how it exited

shutdownVars == <<shutdownPc, procExit>>

VARIABLES
  text,            \* the text parseReceiptText is called on
  words,           \* the recognised words passed with it
  currentYear,     \* new Date().getFullYear() in the worker process
  legacyDate,      \* what new Date(string) answers for a string not in ISO format
  results          \* the calls made so far: the year of the call and what it returned

parseVars == <<text, words, currentYear, legacyDate, results>>

extraVars == <<enqueueVars, shutdownVars, parseVars>>

vars == <<adapterVars, pipelineVars, extraVars>>

InitAdapter ==
  /\ worker = 0
  /\ isInitializing = FALSE
  /\ initPromise = 0
  /\ attempt = [p \in InitIds |-> "unused"]
  /\ engine = [p \in InitIds |-> "none"]
  /\ nextInit = 1
  /\ cpc = [c \in Callers |-> "idle"]
  /\ cwait = [c \in Callers |-> 0]
  /\ cused = [c \in Callers |-> 0]
  /\ tpc = [t \in Terminators |-> "idle"]
  /\ calledDuring = {}

\* createWorker calls that have been made and have not settled
InFlight == {p \in InitIds : attempt[p] = "pending"}

\* initialize(), second guard: join the pending attempt
JoinsPending == isInitializing /\ initPromise # 0

\* extractData up to its first await: the synchronous part of initialize()
CallExtractData(c) ==
  /\ cpc[c] = "idle"
  /\ IF worker # 0
       THEN /\ cwait' = [cwait EXCEPT ![c] = 0]
            /\ UNCHANGED <<isInitializing, initPromise, attempt, nextInit>>
       ELSE IF JoinsPending
         THEN /\ cwait' = [cwait EXCEPT ![c] = initPromise]
              /\ UNCHANGED <<isInitializing, initPromise, attempt, nextInit>>
         ELSE /\ nextInit <= MaxInits
              /\ isInitializing' = TRUE
              /\ initPromise' = nextInit
              /\ attempt' = [attempt EXCEPT ![nextInit] = "pending"]
              /\ cwait' = [cwait EXCEPT ![c] = nextInit]
              /\ nextInit' = nextInit + 1
  /\ cpc' = [cpc EXCEPT ![c] = "awaitInit"]
  /\ UNCHANGED <<worker, engine, cused, tpc>>
  /\ UNCHANGED <<calledDuring, pipelineVars, extraVars>>

\* createWorker('eng') resolves: the try body and the finally of the init closure
CreateWorkerResolves(p) ==
  /\ attempt[p] = "pending"
  /\ worker' = p
  /\ engine' = [engine EXCEPT ![p] = "live"]
  /\ isInitializing' = FALSE
  /\ attempt' = [attempt EXCEPT ![p] = "resolved"]
  /\ calledDuring' = calledDuring \ {p}
  /\ UNCHANGED <<initPromise, nextInit, cpc, cwait, cused, tpc>>
  /\ UNCHANGED <<pipelineVars, extraVars>>

\* createWorker('eng') rejects: the catch and the finally of the init closure
CreateWorkerRejects(p) ==
  /\ attempt[p] = "pending"
  /\ isInitializing' = FALSE
  /\ initPromise' = 0
  /\ attempt' = [attempt EXCEPT ![p] = "rejected"]
  /\ calledDuring' = calledDuring \ {p}
  /\ UNCHANGED <<worker, engine, nextInit, cpc, cwait, cused, tpc>>
  /\ UNCHANGED <<pipelineVars, extraVars>>

\* the promise returned by initialize() has settled (0: initialize returned at once)
Settled(p) == IF p = 0 THEN TRUE ELSE attempt[p] # "pending"
Rejected(p) == IF p = 0 THEN FALSE ELSE attempt[p] = "rejected"

\* extractData after `await this.initialize()`: the null check and the
\* call of this.worker.recognize
AfterInitialize(c) ==
  /\ cpc[c] = "awaitInit"
  /\ Settled(cwait[c])
  /\ IF Rejected(cwait[c]) \/ worker = 0
       THEN /\ cpc' = [cpc EXCEPT ![c] = "idle"]
            /\ cused' = [cused EXCEPT ![c] = 0]
       ELSE /\ cpc' = [cpc EXCEPT ![c] = "recognizing"]
            /\ cused' = [cused EXCEPT ![c] = worker]
  /\ cwait' = [cwait EXCEPT ![c] = 0]
  /\ UNCHANGED <<worker, isInitializing, initPromise, attempt, engine, nextInit,
                 tpc>>
  /\ UNCHANGED <<calledDuring, pipelineVars, extraVars>>

\* recognize resolves; parseReceiptText is pure and the call returns
RecognizeReturns(c) ==
  /\ cpc[c] = "recognizing"
  /\ cpc' = [cpc EXCEPT ![c] = "idle"]
  /\ cused' = [cused EXCEPT ![c] = 0]
  /\ UNCHANGED <<worker, isInitializing, initPromise, attempt, engine, nextInit,
                 cwait, tpc>>
  /\ UNCHANGED <<calledDuring, pipelineVars, extraVars>>

\* a fault handler that forgets to reset this.worker
WorkerAfterFault_Kept == worker

\* the value the fault handler leaves in this.worker
WorkerAfterFault == 0

\* recognize rejects: the catch block up to `await this.worker.terminate()`
RecognizeFaults(c) ==
  /\ cpc[c] = "recognizing"
  /\ IF worker # 0
       THEN /\ engine' = [engine EXCEPT ![worker] = "terminated"]
            /\ cpc' = [cpc EXCEPT ![c] = "handlerTerminate"]
            /\ UNCHANGED cused
       ELSE /\ cpc' = [cpc EXCEPT ![c] = "idle"]
            /\ cused' = [cused EXCEPT ![c] = 0]
            /\ UNCHANGED engine
  /\ UNCHANGED <<worker, isInitializing, initPromise, attempt, nextInit, cwait, tpc>>
  /\ UNCHANGED <<calledDuring, pipelineVars, extraVars>>

\* the catch block after the await: this.worker = null and the re-throw
FaultHandlerFinishes(c) ==
  /\ cpc[c] = "handlerTerminate"
  /\ worker' = WorkerAfterFault
  /\ cpc' = [cpc EXCEPT ![c] = "idle"]
  /\ cused' = [cused EXCEPT ![c] = 0]
  /\ UNCHANGED <<isInitializing, initPromise, attempt, engine, nextInit, cwait, tpc>>
  /\ UNCHANGED <<calledDuring, pipelineVars, extraVars>>

\* terminate() up to `await this.worker.terminate()`
TerminateCall(t) ==
  /\ tpc[t] # "terminating"
  /\ IF worker # 0
       THEN /\ engine' = [engine EXCEPT ![worker] = "terminated"]
            /\ tpc' = [tpc EXCEPT ![t] = "terminating"]
       ELSE /\ tpc' = [tpc EXCEPT ![t] = "returned"]
            /\ UNCHANGED engine
  /\ calledDuring' = calledDuring \cup InFlight
  /\ UNCHANGED <<worker, isInitializing, initPromise, attempt, nextInit,
                 cpc, cwait, cused>>
  /\ UNCHANGED <<pipelineVars, extraVars>>

\* a finally block that forgets to drop the reference
WorkerAfterTerminate_Kept == worker

\* terminate(), finally: this.worker = null
WorkerAfterTerminate == 0

\* terminate(): the finally block, reached whether the engine's own
\* terminate() resolved or rejected
TerminateFinishes(t) ==
  /\ tpc[t] = "terminating"
  /\ worker' = WorkerAfterTerminate
  /\ isInitializing' = FALSE
  /\ initPromise' = 0
  /\ tpc' = [tpc EXCEPT ![t] = "returned"]
  /\ UNCHANGED <<attempt, engine, nextInit, cpc, cwait, cused, calledDuring>>
  /\ UNCHANGED <<pipelineVars, extraVars>>

\* ---------------------------------------------------------------------
\* Queue 'ocr-processing', worker processor, upload directory, receipts
\* ---------------------------------------------------------------------
Jobs == 1..NumJobs

\* defaultJobOptions.attempts
Attempts == 3
\* defaultJobOptions.backoff.delay (ms)
BackoffDelayMs == 2000
\* worker option concurrency
Concurrency == 2
\* the recognition timeout of the troubleshooting guide (ms)
RecognitionTimeoutMs == 30000

\* the first reading of the wall clock past the bound
PastTimeoutMs == RecognitionTimeoutMs + 1

\* The two candidate paths of an upload as the worker process sees them:
\* "lit" is job.data.filePath, "alt" is path.join(uploadDir, job.data.filename).
\* "same": both name the same file (one host, UPLOAD_DIR agreed); "altOnly":
\* the API process and the worker disagree on the absolute path and the file
\* is found only under the worker's upload root.
Layouts == {"same", "altOnly"}

FilesAtUpload(l) == IF l = "same" THEN {"lit", "alt"} ELSE {"alt"}

\* fs.existsSync
existsSync(j, p) == p \in fs[j]

\* fs.unlinkSync: removes the file, hence every path that names it
unlinkSync(j, p) == IF layout = "same" THEN {} ELSE fs[j] \ {p}

\* ExtractedData values returned by ocrService.extractData. Strings stand for
\* the JavaScript values; "undefined" is an absent field.
Item(n, q) == [name |-> n, quantity |-> q, price |-> "undefined"]

ExtractedDataSet ==
  { [storeName |-> "ACME MARKET", purchaseDate |-> "Invalid Date",
     totalAmount |-> "45.67",
     items |-> <<Item("Milk", "2"), Item("Bread", "undefined")>>] }

NoData == [storeName |-> "undefined", purchaseDate |-> "undefined",
           totalAmount |-> "undefined", items |-> <<>>]

\* x || null
OrNull(x) == IF x \in {"undefined", "null", "", "0", "NaN"} THEN "null" ELSE x

\* x || undefined
OrUndefined(x) == IF x \in {"undefined", "null", "", "0", "NaN"} THEN "undefined" ELSE x

\* validDate: purchaseDate && !isNaN(purchaseDate.getTime()) ? purchaseDate : null
ValidDate(d) == IF d \in {"undefined", "null", "Invalid Date"} THEN "null" ELSE d

\* one Item row; src is 0 for a row written by the API process, else the
\* attempt (10 * job + attemptsStarted) whose update created it
Row(i, src) == [name |-> i.name, quantity |-> OrNull(i.quantity),
                price |-> OrNull(i.price), src |-> src]

CreateRows(items, src) == [k \in 1..Len(items) |-> Row(items[k], src)]

\* a merge that keeps the rows already there
ItemsAfterUpdate_Merge(old, created) == old \o created

\* items: { deleteMany: {}, create: [...] }
ItemsAfterUpdate(old, created) == created

NoRecord == [exists |-> FALSE, storeName |-> "null", purchaseDate |-> "null",
             totalAmount |-> "null", items |-> <<>>]

\* the placeholder receipt created by POST /api/upload
Placeholder == [exists |-> TRUE, storeName |-> "null", purchaseDate |-> "null",
                totalAmount |-> "null", items |-> <<>>]

AttemptTag(j) == 10 * j + attemptsStarted[j]

\* the row prisma.receipt.update leaves for extracted data d
UpdatedRecord(old, d, src) ==
  [exists |-> TRUE,
   storeName |-> OrNull(d.storeName),
   purchaseDate |-> ValidDate(d.purchaseDate),
   totalAmount |-> OrNull(d.totalAmount),
   items |-> ItemsAfterUpdate(old.items, CreateRows(d.items, src))]

\* the OCRJobResult the processor returns, built from the updated receipt
JobResult(j, d) ==
  [receiptId |-> j,
   storeName |-> OrUndefined(OrNull(d.storeName)),
   purchaseDate |-> OrUndefined(ValidDate(d.purchaseDate)),
   totalAmount |-> OrUndefined(OrNull(d.totalAmount)),
   items |-> [k \in 1..Len(d.items) |->
                [name |-> d.items[k].name,
                 quantity |-> OrUndefined(OrNull(d.items[k].quantity)),
                 price |-> OrUndefined(OrNull(d.items[k].price))]]]

NoResult == [receiptId |-> 0, storeName |-> "undefined", purchaseDate |-> "undefined",
             totalAmount |-> "undefined", items |-> <<>>]

InitPipeline ==
  /\ layout \in Layouts
  /\ fs = [j \in Jobs |-> {}]
  /\ record = [j \in Jobs |-> NoRecord]
  /\ jobState = [j \in Jobs |-> "none"]
  /\ waitList = <<>>
  /\ attemptsStarted = [j \in Jobs |-> 0]
  /\ attemptsMade = [j \in Jobs |-> 0]
  /\ progress = [j \in Jobs |-> 0]
  /\ returnvalue = [j \in Jobs |-> NoResult]
  /\ failedReason = [j \in Jobs |-> "null"]
  /\ jpc = [j \in Jobs |-> "none"]
  /\ actualFilePath = [j \in Jobs |-> "none"]
  /\ extractedData = [j \in Jobs |-> NoData]
  /\ attemptError = [j \in Jobs |-> "none"]
  /\ elapsed = [j \in Jobs |-> 0]
  /\ reported = [j \in Jobs |-> <<>>]
  /\ fileVerified = [j \in Jobs |-> FALSE]
  /\ replacedItems = [j \in Jobs |-> -1]
  /\ envEvents = 0

InitEnqueue ==
  /\ now = 0
  /\ issuedIds = <<>>
  /\ queueIds = {}

\* shutdown signals the worker process may get (SIGTERM, SIGINT)
Signals == 1..NumSignals

InitShutdown ==
  /\ shutdownPc = [s \in Signals |-> "idle"]
  /\ procExit = "running"

\* no call of parseReceiptText is looked at
InitParserIdle ==
  /\ text = ""
  /\ words = <<>>
  /\ currentYear = 2026
  /\ legacyDate = [kind |-> "invalid", y |-> 0, m |-> 0, d |-> 0]
  /\ results = <<>>

Init == InitAdapter /\ InitPipeline /\ InitEnqueue /\ InitShutdown /\ InitParserIdle

ActiveJobs == {j \in Jobs : jobState[j] = "active"}

\* POST /api/upload: the file is on disk, the placeholder receipt is created
\* and addOCRJob puts a new job on the wait list
AddOCRJob(j) ==
  /\ jobState[j] = "none"
  /\ \A i \in Jobs : i < j => jobState[i] # "none"
  /\ fs' = [fs EXCEPT ![j] = FilesAtUpload(layout)]
  /\ record' = [record EXCEPT ![j] = Placeholder]
  /\ jobState' = [jobState EXCEPT ![j] = "waiting"]
  /\ waitList' = Append(waitList, j)
  /\ UNCHANGED <<layout, attemptsStarted, attemptsMade, progress, returnvalue,
                 failedReason, jpc, actualFilePath, extractedData, attemptError,
                 elapsed, reported, fileVerified, replacedItems, envEvents>>
  /\ UNCHANGED <<adapterVars, extraVars>>

\* the locals of a processor call do not outlive the call
ProcessorLocalsDropped(j) ==
  /\ actualFilePath' = [actualFilePath EXCEPT ![j] = "none"]
  /\ extractedData' = [extractedData EXCEPT ![j] = NoData]
  /\ attemptError' = [attemptError EXCEPT ![j] = "none"]
  /\ elapsed' = [elapsed EXCEPT ![j] = 0]
  /\ reported' = [reported EXCEPT ![j] = <<>>]
  /\ fileVerified' = [fileVerified EXCEPT ![j] = FALSE]
  /\ replacedItems' = [replacedItems EXCEPT ![j] = -1]

\* a worker with a free slot forgets to count the job it is about to take
CanFetch_OffByOne == Cardinality(ActiveJobs) <= Concurrency

\* the worker takes another job only while fewer than `concurrency` run
CanFetch == Cardinality(ActiveJobs) < Concurrency

\* the worker process is alive and ocrWorker.close() has not been called
WorkerFetches == procExit = "running" /\ \A s \in Signals : shutdownPc[s] = "idle"

\* the worker moves the oldest waiting job to active and calls the processor
MoveToActive(j) ==
  /\ waitList # <<>>
  /\ j = Head(waitList)
  /\ CanFetch
  /\ WorkerFetches
  /\ waitList' = Tail(waitList)
  /\ jobState' = [jobState EXCEPT ![j] = "active"]
  /\ attemptsStarted' = [attemptsStarted EXCEPT ![j] = @ + 1]
  /\ jpc' = [jpc EXCEPT ![j] = "progress10"]
  /\ ProcessorLocalsDropped(j)
  /\ UNCHANGED <<layout, fs, record, attemptsMade, progress, returnvalue,
                 failedReason, envEvents>>
  /\ UNCHANGED <<adapterVars, extraVars>>

\* the position after each job.updateProgress call
AfterProgress(pc) ==
  IF pc = "progress10" THEN "resolve"
  ELSE IF pc = "progress20" THEN "recognize"
  ELSE IF pc = "progress70" THEN "update"
  ELSE "return"

Milestone(pc) ==
  IF pc = "progress10" THEN 10
  ELSE IF pc = "progress20" THEN 20
  ELSE IF pc = "progress70" THEN 70
  ELSE 100

ProgressSteps == {"progress10", "progress20", "progress70", "progress100"}

\* await job.updateProgress(n) succeeds
UpdateProgress(j) ==
  /\ jpc[j] \in ProgressSteps
  /\ progress' = [progress EXCEPT ![j] = Milestone(jpc[j])]
  /\ reported' = [reported EXCEPT ![j] = Append(@, Milestone(jpc[j]))]
  /\ jpc' = [jpc EXCEPT ![j] = AfterProgress(jpc[j])]
  /\ elapsed' = [elapsed EXCEPT ![j] = 0]
  /\ UNCHANGED <<layout, fs, record, jobState, waitList, attemptsStarted,
                 attemptsMade, returnvalue, failedReason, actualFilePath,
                 extractedData, attemptError, fileVerified, replacedItems,
                 envEvents>>
  /\ UNCHANGED <<adapterVars, extraVars>>

\* await job.updateProgress(n) rejects (queue connection fault)
UpdateProgressFaults(j) ==
  /\ jpc[j] \in ProgressSteps
  /\ envEvents < MaxEnvEvents
  /\ envEvents' = envEvents + 1
  /\ attemptError' = [attemptError EXCEPT ![j] = "ProgressFault"]
  /\ jpc' = [jpc EXCEPT ![j] = "catch"]
  /\ UNCHANGED <<layout, fs, record, jobState, waitList, attemptsStarted,
                 attemptsMade, progress, returnvalue, failedReason,
                 actualFilePath, extractedData, elapsed, reported, fileVerified,
                 replacedItems>>
  /\ UNCHANGED <<adapterVars, extraVars>>

\* the path the attempt uses: filePath if it exists, else uploadDir/filename
ResolvedPath(j) == IF existsSync(j, "lit") THEN "lit" ELSE "alt"

\* file path resolution and the existence check
ResolveFile(j) ==
  /\ jpc[j] = "resolve"
  /\ actualFilePath' = [actualFilePath EXCEPT ![j] = ResolvedPath(j)]
  /\ IF existsSync(j, ResolvedPath(j))
       THEN /\ fileVerified' = [fileVerified EXCEPT ![j] = TRUE]
            /\ jpc' = [jpc EXCEPT ![j] = "progress20"]
            /\ UNCHANGED attemptError
       ELSE /\ attemptError' = [attemptError EXCEPT ![j] = "FileNotFound"]
            /\ jpc' = [jpc EXCEPT ![j] = "catch"]
            /\ UNCHANGED fileVerified
  /\ UNCHANGED <<layout, fs, record, jobState, waitList, attemptsStarted,
                 attemptsMade, progress, returnvalue, failedReason,
                 extractedData, elapsed, reported, replacedItems, envEvents>>
  /\ UNCHANGED <<adapterVars, extraVars>>

\* ocrService.extractData(actualFilePath) resolves with d
ExtractDataReturns(j, d) ==
  /\ jpc[j] = "recognize"
  /\ extractedData' = [extractedData EXCEPT ![j] = d]
  /\ jpc' = [jpc EXCEPT ![j] = "progress70"]
  /\ elapsed' = [elapsed EXCEPT ![j] = 0]
  /\ UNCHANGED <<layout, fs, record, jobState, waitList, attemptsStarted,
                 attemptsMade, progress, returnvalue, failedReason,
                 actualFilePath, attemptError, reported, fileVerified,
                 replacedItems, envEvents>>
  /\ UNCHANGED <<adapterVars, extraVars>>

\* ocrService.extractData(actualFilePath) rejects
ExtractDataFaults(j) ==
  /\ jpc[j] = "recognize"
  /\ envEvents < MaxEnvEvents
  /\ envEvents' = envEvents + 1
  /\ attemptError' = [attemptError EXCEPT ![j] = "RecognitionFault"]
  /\ jpc' = [jpc EXCEPT ![j] = "catch"]
  /\ elapsed' = [elapsed EXCEPT ![j] = 0]
  /\ UNCHANGED <<layout, fs, record, jobState, waitList, attemptsStarted,
                 attemptsMade, progress, returnvalue, failedReason,
                 actualFilePath, extractedData, reported, fileVerified,
                 replacedItems>>
  /\ UNCHANGED <<adapterVars, extraVars>>

\* wall-clock time passes while the recognition call is pending; the
\* processor has no timer on this await
ClockTick(j) ==
  /\ jpc[j] = "recognize"
  /\ elapsed[j] <= RecognitionTimeoutMs
  /\ elapsed' = [elapsed EXCEPT ![j] = PastTimeoutMs]
  /\ UNCHANGED <<layout, fs, record, jobState, waitList, attemptsStarted,
                 attemptsMade, progress, returnvalue, failedReason, jpc,
                 actualFilePath, extractedData, attemptError, reported,
                 fileVerified, replacedItems, envEvents>>
  /\ UNCHANGED <<adapterVars, extraVars>>

\* prisma.receipt.update: one nested write; rejects when the receipt is gone
ReceiptUpdate(j) ==
  /\ jpc[j] = "update"
  /\ IF record[j].exists
       THEN /\ record' = [record EXCEPT ![j] =
                            UpdatedRecord(@, extractedData[j], AttemptTag(j))]
            /\ replacedItems' = [replacedItems EXCEPT ![j] = Len(record[j].items)]
            /\ jpc' = [jpc EXCEPT ![j] = "progress100"]
            /\ UNCHANGED attemptError
       ELSE /\ attemptError' = [attemptError EXCEPT ![j] = "PersistenceFault"]
            /\ jpc' = [jpc EXCEPT ![j] = "catch"]
            /\ UNCHANGED <<record, replacedItems>>
  /\ UNCHANGED <<layout, fs, jobState, waitList, attemptsStarted, attemptsMade,
                 progress, returnvalue, failedReason, actualFilePath,
                 extractedData, elapsed, reported, fileVerified, envEvents>>
  /\ UNCHANGED <<adapterVars, extraVars>>

\* prisma.receipt.update rejects (database fault)
ReceiptUpdateFaults(j) ==
  /\ jpc[j] = "update"
  /\ envEvents < MaxEnvEvents
  /\ envEvents' = envEvents + 1
  /\ attemptError' = [attemptError EXCEPT ![j] = "PersistenceFault"]
  /\ jpc' = [jpc EXCEPT ![j] = "catch"]
  /\ UNCHANGED <<layout, fs, record, jobState, waitList, attemptsStarted,
                 attemptsMade, progress, returnvalue, failedReason,
                 actualFilePath, extractedData, elapsed, reported, fileVerified,
                 replacedItems>>
  /\ UNCHANGED <<adapterVars, extraVars>>

\* the processor returns its result and BullMQ moves the job to completed
ReturnResult(j) ==
  /\ jpc[j] = "return"
  /\ jobState' = [jobState EXCEPT ![j] = "completed"]
  /\ returnvalue' = [returnvalue EXCEPT ![j] = JobResult(j, extractedData[j])]
  /\ jpc' = [jpc EXCEPT ![j] = "none"]
  /\ ProcessorLocalsDropped(j)
  /\ UNCHANGED <<layout, fs, record, waitList, attemptsStarted, attemptsMade,
                 progress, failedReason, envEvents>>
  /\ UNCHANGED <<adapterVars, extraVars>>

\* a clean-up that only looks at job.data.filePath
FileToDelete_LiteralOnly(j) == "lit"

\* catch block: fileToDelete
FileToDelete(j) == IF existsSync(j, "lit") THEN "lit" ELSE "alt"

\* a retry test that allows one attempt too many
ShouldRetry_OneMore(made) == made <= Attempts

\* BullMQ retries while the attempts made stay below opts.attempts
ShouldRetry(made) == made < Attempts

\* exponential backoff: delay * 2^(attemptsMade - 1)
BackoffDelay(made) == BackoffDelayMs * (2 ^ (made - 1))

\* a queue configured without backoff retries at once
StateAfterFailedAttempt_NoBackoff(made) ==
  IF ShouldRetry(made) THEN "waiting" ELSE "failed"

\* a queue that never moves a job to failed: with its attempts used up the
\* job is left in the active set
StateAfterFailedAttempt_LeftActive(made) ==
  IF ShouldRetry(made)
    THEN (IF BackoffDelay(made) > 0 THEN "delayed" ELSE "waiting")
    ELSE "active"

\* where a failed attempt leaves the job
StateAfterFailedAttempt(made) ==
  IF ShouldRetry(made)
    THEN (IF BackoffDelay(made) > 0 THEN "delayed" ELSE "waiting")
    ELSE "failed"

\* an error that escapes as an uncaught exception ends the process
\* (worker.ts: process.on('uncaughtException') calls process.exit(1))
ProcessAfterProcessorError_Uncaught == "exit1"

\* the processor is an async function: what it throws rejects its promise,
\* which BullMQ's worker loop handles; the process goes on as it was
ProcessAfterProcessorError == procExit

\* catch block: delete the upload, re-throw; BullMQ records the failure and
\* either schedules the retry or fails the job
CatchAndRethrow(j) ==
  /\ jpc[j] = "catch"
  /\ fs' = [fs EXCEPT ![j] = IF existsSync(j, FileToDelete(j))
                               THEN unlinkSync(j, FileToDelete(j)) ELSE @]
  /\ attemptsMade' = [attemptsMade EXCEPT ![j] = @ + 1]
  /\ failedReason' = [failedReason EXCEPT ![j] = attemptError[j]]
  /\ jobState' = [jobState EXCEPT ![j] = StateAfterFailedAttempt(attemptsMade[j] + 1)]
  /\ waitList' = IF StateAfterFailedAttempt(attemptsMade[j] + 1) = "waiting"
                   THEN Append(waitList, j) ELSE waitList
  /\ jpc' = [jpc EXCEPT ![j] = "none"]
  /\ ProcessorLocalsDropped(j)
  /\ procExit' = ProcessAfterProcessorError
  /\ UNCHANGED <<layout, record, attemptsStarted, progress, returnvalue,
                 envEvents>>
  /\ UNCHANGED <<adapterVars, enqueueVars, shutdownPc, parseVars>>

\* the backoff delay of a delayed job has passed
DelayElapsed(j) ==
  /\ jobState[j] = "delayed"
  /\ jobState' = [jobState EXCEPT ![j] = "waiting"]
  /\ waitList' = Append(waitList, j)
  /\ UNCHANGED <<layout, fs, record, attemptsStarted, attemptsMade, progress,
                 returnvalue, failedReason, jpc, actualFilePath, extractedData,
                 attemptError, elapsed, reported, fileVerified, replacedItems,
                 envEvents>>
  /\ UNCHANGED <<adapterVars, extraVars>>

\* GraphQL updateReceipt from the API process: a hand edit with one item
UpdateReceipt(j) ==
  /\ record[j].exists
  /\ envEvents < MaxEnvEvents
  /\ envEvents' = envEvents + 1
  /\ record' = [record EXCEPT ![j] =
                  [@ EXCEPT !.storeName = "EDITED",
                            !.items = CreateRows(<<Item("Tea", "1")>>, 0)]]
  /\ UNCHANGED <<layout, fs, jobState, waitList, attemptsStarted, attemptsMade,
                 progress, returnvalue, failedReason, jpc, actualFilePath,
                 extractedData, attemptError, elapsed, reported, fileVerified,
                 replacedItems>>
  /\ UNCHANGED <<adapterVars, extraVars>>

\* GraphQL deleteReceipt from the API process: the row and the image file go
DeleteReceipt(j) ==
  /\ record[j].exists
  /\ envEvents < MaxEnvEvents
  /\ envEvents' = envEvents + 1
  /\ record' = [record EXCEPT ![j] = NoRecord]
  /\ fs' = [fs EXCEPT ![j] = IF existsSync(j, "lit") THEN unlinkSync(j, "lit") ELSE @]
  /\ UNCHANGED <<layout, jobState, waitList, attemptsStarted, attemptsMade,
                 progress, returnvalue, failedReason, jpc, actualFilePath,
                 extractedData, attemptError, elapsed, reported, fileVerified,
                 replacedItems>>
  /\ UNCHANGED <<adapterVars, extraVars>>

Next ==
  \/ \E j \in Jobs : AddOCRJob(j)
  \/ \E j \in Jobs : MoveToActive(j)
  \/ \E j \in Jobs : UpdateProgress(j)
  \/ \E j \in Jobs : UpdateProgressFaults(j)
  \/ \E j \in Jobs : ResolveFile(j)
  \/ \E j \in Jobs, d \in ExtractedDataSet : ExtractDataReturns(j, d)
  \/ \E j \in Jobs : ExtractDataFaults(j)
  \/ \E j \in Jobs : ClockTick(j)
  \/ \E j \in Jobs : ReceiptUpdate(j)
  \/ \E j \in Jobs : ReceiptUpdateFaults(j)
  \/ \E j \in Jobs : ReturnResult(j)
  \/ \E j \in Jobs : CatchAndRethrow(j)
  \/ \E j \in Jobs : DelayElapsed(j)
  \/ \E j \in Jobs : UpdateReceipt(j)
  \/ \E j \in Jobs : DeleteReceipt(j)

Spec == Init /\ [][Next]_vars

NextAdapter ==
  \/ \E c \in Callers : CallExtractData(c)
  \/ \E p \in InitIds : CreateWorkerResolves(p)
  \/ \E p \in InitIds : CreateWorkerRejects(p)
  \/ \E c \in Callers : AfterInitialize(c)
  \/ \E c \in Callers : RecognizeReturns(c)
  \/ \E c \in Callers : RecognizeFaults(c)
  \/ \E c \in Callers : FaultHandlerFinishes(c)
  \/ \E t \in Terminators : TerminateCall(t)
  \/ \E t \in Terminators : TerminateFinishes(t)

\* the adapter on its own: the queue stays empty
InitAdapterOnly == Init /\ layout = "same"

SpecAdapter == InitAdapterOnly /\ [][NextAdapter]_vars

\* ---------------------------------------------------------------------
\* gracefulShutdown of the worker process
\* ---------------------------------------------------------------------
\* SIGTERM or SIGINT arrives: gracefulShutdown up to `await ocrWorker.close()`;
\* from here on the worker takes no new job
ShutdownSignal(s) ==
  /\ procExit = "running"
  /\ shutdownPc[s] = "idle"
  /\ shutdownPc' = [shutdownPc EXCEPT ![s] = "closing"]
  /\ UNCHANGED <<procExit, enqueueVars, adapterVars, pipelineVars, parseVars>>

\* a close that does not wait (close(true))
CloseWaitsFor_Force == {}

\* ocrWorker.close() without force resolves once these jobs have finished
CloseWaitsFor == ActiveJobs

\* `await ocrWorker.close()` resolves
CloseResolves(s) ==
  /\ procExit = "running"
  /\ shutdownPc[s] = "closing"
  /\ CloseWaitsFor = {}
  /\ shutdownPc' = [shutdownPc EXCEPT ![s] = "terminate"]
  /\ UNCHANGED <<procExit, enqueueVars, adapterVars, pipelineVars, parseVars>>

\* the step that follows each await of gracefulShutdown
AfterShutdownStep(pc) ==
  IF pc = "terminate" THEN "disconnect"
  ELSE IF pc = "disconnect" THEN "quit"
  ELSE "exit"

\* `await ocrService.terminate()`, `await prisma.$disconnect()` and
\* `await connection.quit()`, one after the other
ShutdownStep(s) ==
  /\ procExit = "running"
  /\ shutdownPc[s] \in {"terminate", "disconnect", "quit"}
  /\ shutdownPc' = [shutdownPc EXCEPT ![s] = AfterShutdownStep(@)]
  /\ UNCHANGED <<procExit, enqueueVars, adapterVars, pipelineVars, parseVars>>

\* process.exit(0)
ProcessExit(s) ==
  /\ procExit = "running"
  /\ shutdownPc[s] = "exit"
  /\ procExit' = "exit0"
  /\ UNCHANGED <<shutdownPc, enqueueVars, adapterVars, pipelineVars, parseVars>>

\* the worker process under shutdown: the queue, the processor with its
\* recognition calls that return, fault or hang, the retries, and the shutdown
\* runs; edits made by the API process and faults of the queue and database
\* connections are left to Spec
NextShutdown ==
  \/ \E j \in Jobs : AddOCRJob(j)
  \/ \E j \in Jobs : MoveToActive(j)
  \/ \E j \in Jobs : UpdateProgress(j)
  \/ \E j \in Jobs : ResolveFile(j)
  \/ \E j \in Jobs, d \in ExtractedDataSet : ExtractDataReturns(j, d)
  \/ \E j \in Jobs : ExtractDataFaults(j)
  \/ \E j \in Jobs : ClockTick(j)
  \/ \E j \in Jobs : ReceiptUpdate(j)
  \/ \E j \in Jobs : ReturnResult(j)
  \/ \E j \in Jobs : CatchAndRethrow(j)
  \/ \E j \in Jobs : DelayElapsed(j)
  \/ \E s \in Signals : ShutdownSignal(s)
  \/ \E s \in Signals : CloseResolves(s)
  \/ \E s \in Signals : ShutdownStep(s)
  \/ \E s \in Signals : ProcessExit(s)

SpecShutdown == Init /\ [][NextShutdown]_vars

\* ---------------------------------------------------------------------
\* addOCRJob: how a job gets its id
\* ---------------------------------------------------------------------
\* the values Math.random().toString(36).substr(2, 9) can take
RandomSuffixes == 1..NumSuffixes

\* jobId: `ocr-${Date.now()}-${Math.random().toString(36).substr(2, 9)}`
JobIdOf(t, r) == <<"ocr", t, r>>

\* ocrQueue.add with opts.jobId: BullMQ creates the job unless the queue
\* already holds a job with that id, and hands back the job of that id
QueueAfterAdd(ids, id) == ids \cup {id}

\* one addOCRJob call; r is what Math.random yields
QueueAdd(r) ==
  /\ Len(issuedIds) < MaxAdds
  /\ issuedIds' = Append(issuedIds, JobIdOf(now, r))
  /\ queueIds' = QueueAfterAdd(queueIds, JobIdOf(now, r))
  /\ UNCHANGED now
  /\ UNCHANGED <<adapterVars, pipelineVars, shutdownVars, parseVars>>

\* the millisecond clock of the API process moves on
ClockAdvances ==
  /\ now < MaxNow
  /\ now' = now + 1
  /\ UNCHANGED <<issuedIds, queueIds>>
  /\ UNCHANGED <<adapterVars, pipelineVars, shutdownVars, parseVars>>

NextEnqueue ==
  \/ \E r \in RandomSuffixes : QueueAdd(r)
  \/ ClockAdvances

SpecEnqueue == InitAdapterOnly /\ [][NextEnqueue]_vars

\* ---------------------------------------------------------------------
\* The extraction engine (parseReceiptText): JavaScript strings and regular
\* expressions, character by character
\* ---------------------------------------------------------------------
\* ---------------------------------------------------------------------
\* JavaScript strings and regular expressions, as parseReceiptText uses them
\* ---------------------------------------------------------------------
Digit == {"0", "1", "2", "3", "4", "5", "6", "7", "8", "9"}
UpperCase == "ABCDEFGHIJKLMNOPQRSTUVWXYZ"
LowerCase == "abcdefghijklmnopqrstuvwxyz"
Upper == {SubSeq(UpperCase, i, i) : i \in 1..26}
Lower == {SubSeq(LowerCase, i, i) : i \in 1..26}
\* \w and \s
WordChar == Upper \cup Lower \cup Digit \cup {"_"}
Space == {" ", "\t", "\n", "\r", "\f"}

CharAt(s, i) == SubSeq(s, i, i)

AlphabetIndex(alphabet, c) ==
  IF \E i \in 1..26 : CharAt(alphabet, i) = c
    THEN CHOOSE i \in 1..26 : CharAt(alphabet, i) = c
    ELSE 0

lowerOf == [c \in Upper |-> CharAt(LowerCase, AlphabetIndex(UpperCase, c))]
upperOf == [c \in Lower |-> CharAt(UpperCase, AlphabetIndex(LowerCase, c))]

ToLowerChar(c) == IF c \in Upper THEN lowerOf[c] ELSE c
ToUpperChar(c) == IF c \in Lower THEN upperOf[c] ELSE c

\* the characters of s
CharsOf(s) == {CharAt(s, k) : k \in 1..Len(s)}

MinOf(S) == CHOOSE k \in S : \A j \in S : k <= j
MaxOf(S) == CHOOSE k \in S : \A j \in S : k >= j

RECURSIVE ConcatMap(_, _, _, _)
\* f[s[lo]] \o ... \o f[s[hi]] for lo <= hi, one half after the other
ConcatMap(f, s, lo, hi) ==
  IF lo = hi THEN f[CharAt(s, lo)]
  ELSE ConcatMap(f, s, lo, (lo + hi) \div 2) \o ConcatMap(f, s, (lo + hi) \div 2 + 1, hi)

\* String.prototype.toLowerCase
toLowerCase(s) ==
  IF s = "" THEN "" ELSE ConcatMap([c \in CharsOf(s) |-> ToLowerChar(c)], s, 1, Len(s))

\* String.prototype.replace(/^[...]+/, '') for a class of characters
StripStart(s, set) ==
  LET kept == {k \in 1..Len(s) : CharAt(s, k) \notin set}
  IN IF kept = {} THEN "" ELSE SubSeq(s, MinOf(kept), Len(s))

\* String.prototype.replace(/[...]+$/, '') for a class of characters
StripEnd(s, set) ==
  LET kept == {k \in 1..Len(s) : CharAt(s, k) \notin set}
  IN IF kept = {} THEN "" ELSE SubSeq(s, 1, MaxOf(kept))

\* String.prototype.trim
trim(s) == StripEnd(StripStart(s, Space), Space)

\* String.prototype.split with a one-character separator: the pieces
\* between the occurrences of sep
split(s, sep) ==
  LET at == {k \in 1..Len(s) : CharAt(s, k) = sep}
      n == Cardinality(at)
      \* the position of the i-th occurrence; 0 and Len(s) + 1 close the ends
      pos(i) == IF i = 0 THEN 0
                ELSE IF i = n + 1 THEN Len(s) + 1
                ELSE CHOOSE q \in at : Cardinality({r \in at : r < q}) = i - 1
  IN [i \in 1..(n + 1) |-> SubSeq(s, pos(i - 1) + 1, pos(i) - 1)]

\* Regular expressions are sequences of elements:
\*   a character class with a quantifier, a literal text, a group of
\*   alternatives, the markers of a capturing group, the anchor $ and the
\*   word boundary \b.
Cls(neg, set, min, max, greedy) ==
  [t |-> "c", neg |-> neg, set |-> set, min |-> min, max |-> max,
   greedy |-> greedy, alts |-> <<>>, g |-> 0, w |-> ""]
Text(t, w) ==
  [t |-> t, neg |-> FALSE, set |-> {}, min |-> 0, max |-> 0,
   greedy |-> TRUE, alts |-> <<>>, g |-> 0, w |-> w]
Alt(alts) ==
  [t |-> "alt", neg |-> FALSE, set |-> {}, min |-> 0, max |-> 0,
   greedy |-> TRUE, alts |-> alts, g |-> 0, w |-> ""]
Mark(t, g) ==
  [t |-> t, neg |-> FALSE, set |-> {}, min |-> 0, max |-> 0,
   greedy |-> TRUE, alts |-> <<>>, g |-> g, w |-> ""]

\* "no upper limit" of a quantifier
Inf == 1000

One(set) == <<Cls(FALSE, set, 1, 1, TRUE)>>
Rep(set, min, max) == <<Cls(FALSE, set, min, max, TRUE)>>
Star(set) == Rep(set, 0, Inf)
Plus(set) == Rep(set, 1, Inf)
Opt(set) == Rep(set, 0, 1)
NotNewline == {"\n", "\r"}
\* .*   .+   .+?
AnyStar == <<Cls(TRUE, NotNewline, 0, Inf, TRUE)>>
AnyPlusLazy == <<Cls(TRUE, NotNewline, 1, Inf, FALSE)>>
\* ( ... ) with number g
Group(g, pat) == <<Mark("open", g)>> \o pat \o <<Mark("close", g)>>
\* (?: a | b | ... )
Or(alts) == <<Alt(alts)>>
\* (?: ... )?
Maybe(pat) == <<Alt(<<pat, <<>> >>)>>
End == <<Mark("end", 0)>>
WordBoundary == <<Mark("wb", 0)>>

\* a literal under the flag i
Lit(w) == <<Text("lit", toLowerCase(w))>>

\* a literal, case-sensitive
LitCS(w) == <<Text("litcs", w)>>

ClsMatches(e, c) == (c \in e.set) # e.neg

\* how many characters from position p on are in the class of e, up to lim
RunLength(e, s, p, lim) ==
  LET most == IF Len(s) - p + 1 < lim THEN Len(s) - p + 1 ELSE lim
      stops == {n \in 0..(most - 1) : ~ClsMatches(e, CharAt(s, p + n))}
  IN IF most <= 0 THEN 0 ELSE IF stops = {} THEN most ELSE MinOf(stops)

IsWordAt(s, p) == p >= 1 /\ p <= Len(s) /\ CharAt(s, p) \in WordChar

\* whether the literal of e stands at position q of s
LitAt(e, s, q) ==
  /\ q + Len(e.w) - 1 <= Len(s)
  /\ IF e.t = "litcs" THEN SubSeq(s, q, q + Len(e.w) - 1) = e.w
     ELSE /\ ToLowerChar(CharAt(s, q)) = CharAt(e.w, 1)
          /\ toLowerCase(SubSeq(s, q, q + Len(e.w) - 1)) = e.w

RECURSIVE After(_, _, _)
RECURSIVE Reach(_, _, _, _, _)
RECURSIVE ReachOn(_, _, _, _, _)
RECURSIVE Before(_, _, _, _)
RECURSIVE Backs(_, _, _, _, _, _)
RECURSIVE BacksOn(_, _, _, _, _, _)
RECURSIVE Cans(_, _, _, _)
RECURSIVE CansFrom(_, _, _, _)
RECURSIVE CansBack(_, _, _, _)
RECURSIVE TakeOne(_, _, _, _)
RECURSIVE TakeAlt(_, _, _, _)
RECURSIVE Take(_, _, _, _, _, _)
RECURSIVE TakeOn(_, _, _, _, _)
RECURSIVE TakeRest(_, _, _, _, _, _)

\* the positions where element e can end when it starts at one of from
After(e, s, from) ==
  CASE e.t = "c" ->
         UNION {{q + c : c \in e.min..RunLength(e, s, q, e.max)} : q \in from}
    [] e.t \in {"lit", "litcs"} -> {q + Len(e.w) : q \in {r \in from : LitAt(e, s, r)}}
    [] e.t = "alt" ->
         UNION {IF e.alts[k] = <<>> THEN from
                ELSE Reach(e.alts[k], s, 1, Len(e.alts[k]), from)[Len(e.alts[k])] :
                k \in 1..Len(e.alts)}
    [] e.t = "end" -> from \cap {Len(s) + 1}
    [] e.t = "wb" -> {q \in from : IsWordAt(s, q - 1) # IsWordAt(s, q)}
    [] OTHER -> from

\* the positions where each of the elements lo..hi of pat can end, when the
\* lo-th starts at one of from
Reach(pat, s, lo, hi, from) ==
  IF lo = hi THEN <<After(pat[lo], s, from)>>
  ELSE ReachOn(pat, s, (lo + hi) \div 2, hi, Reach(pat, s, lo, (lo + hi) \div 2, from))

\* left, the sets of the elements up to mid, and then those of mid+1..hi
ReachOn(pat, s, mid, hi, left) ==
  IF left[Len(left)] = {} THEN left \o [i \in 1..(hi - mid) |-> {}]
  ELSE left \o Reach(pat, s, mid + 1, hi, left[Len(left)])

\* the positions of from where element e can start and end at one of to
Before(e, s, from, to) ==
  CASE e.t = "c" ->
         {q \in from : \E c \in e.min..RunLength(e, s, q, e.max) : q + c \in to}
    [] e.t \in {"lit", "litcs"} -> {q \in from : LitAt(e, s, q) /\ q + Len(e.w) \in to}
    [] e.t = "alt" -> UNION {Cans(e.alts[k], s, from, to)[1] : k \in 1..Len(e.alts)}
    [] e.t = "end" -> from \cap to \cap {Len(s) + 1}
    [] e.t = "wb" -> {q \in from \cap to : IsWordAt(s, q - 1) # IsWordAt(s, q)}
    [] OTHER -> from \cap to

\* the positions where each of the elements lo..hi of pat can start so that
\* the hi-th ends at one of to; starts[k] holds where the k-th may start
Backs(pat, s, lo, hi, starts, to) ==
  IF lo = hi THEN <<Before(pat[lo], s, starts[lo], to)>>
  ELSE BacksOn(pat, s, lo, (lo + hi) \div 2, starts,
               Backs(pat, s, (lo + hi) \div 2 + 1, hi, starts, to))

\* the sets of the elements lo..mid, and then right, those of the elements after mid
BacksOn(pat, s, lo, mid, starts, right) ==
  IF right[1] = {} THEN [i \in 1..(mid - lo + 1) |-> {}] \o right
  ELSE Backs(pat, s, lo, mid, starts, right[1]) \o right

\* for the elements pat started at one of from and ended at one of to: the
\* positions before each element, and after the last, that a match visits
Cans(pat, s, from, to) ==
  IF pat = <<>> THEN <<from \cap to>>
  ELSE CansFrom(pat, s, <<from>> \o Reach(pat, s, 1, Len(pat), from), to)

\* starts[k]: where the k-th element may start; the last entry: where pat may end
CansFrom(pat, s, starts, to) == CansBack(pat, s, starts, starts[Len(pat) + 1] \cap to)

CansBack(pat, s, starts, ends) ==
  IF ends = {} THEN [i \in 1..(Len(pat) + 1) |-> {}]
  ELSE Backs(pat, s, 1, Len(pat), starts, ends) \o <<ends>>

\* the first of the counts in the order backtracking tries them
FirstCount(e, counts) == IF e.greedy THEN MaxOf(counts) ELSE MinOf(counts)

\* what element e takes at position q when the rest starts at one of to: the
\* first of its choices, in the order backtracking tries them
TakeOne(e, s, q, to) ==
  CASE e.t = "c" ->
         [end |-> q + FirstCount(e, {c \in e.min..RunLength(e, s, q, e.max) : q + c \in to}),
          ev |-> <<>>]
    [] e.t \in {"lit", "litcs"} -> [end |-> q + Len(e.w), ev |-> <<>>]
    [] e.t = "alt" ->
         TakeAlt(e, s, q, [k \in 1..Len(e.alts) |-> Cans(e.alts[k], s, {q}, to)])
    [] e.t = "open" -> [end |-> q, ev |-> <<<<e.g, 0, q>>>>]
    [] e.t = "close" -> [end |-> q, ev |-> <<<<e.g, 1, q>>>>]
    [] OTHER -> [end |-> q, ev |-> <<>>]

\* the first alternative of e that can match at q; cans[k] is for the k-th
TakeAlt(e, s, q, cans) ==
  TakeOn(e.alts, s, q, cans, MinOf({k \in 1..Len(e.alts) : cans[k][1] # {}}))

\* the match of the k-th of the alternatives alts from position q
TakeOn(alts, s, q, cans, k) ==
  IF alts[k] = <<>> THEN [end |-> q, ev |-> <<>>]
  ELSE Take(alts[k], s, 1, Len(alts[k]), cans[k], q)

\* left followed by right, the matches of two stretches of a pattern
Joined(left, right) ==
  IF left.ev = <<>> THEN right ELSE [right EXCEPT !.ev = left.ev \o @]

\* the match of the elements lo..hi of pat from position q: its end and the
\* capture events <<group, 0 open / 1 close, position>>; cans[k] holds the
\* positions from which the k-th element on can match
Take(pat, s, lo, hi, cans, q) ==
  IF lo = hi THEN TakeOne(pat[lo], s, q, cans[lo + 1])
  ELSE TakeRest(pat, s, (lo + hi) \div 2 + 1, hi, cans,
                Take(pat, s, lo, (lo + hi) \div 2, cans, q))

\* left, the match of the elements before from, and then that of from..hi
TakeRest(pat, s, from, hi, cans, left) ==
  Joined(left, Take(pat, s, from, hi, cans, left.end))

Found(index, r) == [ok |-> TRUE, index |-> index, end |-> r.end, ev |-> r.ev]

\* the match at the leftmost of the positions cans[1]
MatchAt(pat, s, cans) ==
  IF cans[1] = {} THEN [ok |-> FALSE, index |-> 0, end |-> 0, ev |-> <<>>]
  ELSE IF pat = <<>> THEN Found(MinOf(cans[1]), [end |-> MinOf(cans[1]), ev |-> <<>>])
  ELSE Found(MinOf(cans[1]), Take(pat, s, 1, Len(pat), cans, MinOf(cans[1])))

\* the leftmost match that starts at one of from; at each start the first in
\* the order backtracking tries the choices
MatchIn(pat, s, from) == MatchAt(pat, s, Cans(pat, s, from, 1..(Len(s) + 1)))

\* String.prototype.match without the flag g: the leftmost match
match(s, pat) == MatchIn(pat, s, 1..(Len(s) + 1))

\* a pattern that starts with ^
matchStart(s, pat) == MatchIn(pat, s, {1})

\* RegExp.prototype.test
test(pat, s) == match(s, pat).ok
testStart(pat, s) == matchStart(s, pat).ok

EventPos(m, g, which) ==
  LET hits == {k \in 1..Len(m.ev) : m.ev[k][1] = g /\ m.ev[k][2] = which}
  IN IF hits = {} THEN 0 ELSE m.ev[CHOOSE k \in hits : TRUE][3]

\* an absent (undefined) string; no string the parser reads or builds is
\* this one
Undefined == "<undefined>"

\* match[g]; undefined when the group took no part in the match
Captured(s, m, g) ==
  IF EventPos(m, g, 0) = 0 THEN Undefined
  ELSE SubSeq(s, EventPos(m, g, 0), EventPos(m, g, 1) - 1)

\* String.prototype.includes
includes(s, w) == \E k \in 1..(Len(s) - Len(w) + 1) : SubSeq(s, k, k + Len(w) - 1) = w

\* a match of one of the words, under the flag i
ContainsAnyCI(s, ws) == \E w \in ws : includes(toLowerCase(s), toLowerCase(w))

\* String.prototype.replace(/[^...]/g, ''): keeps the characters of `keep`
RemoveChars(s, keep) ==
  IF s = "" THEN ""
  ELSE ConcatMap([c \in CharsOf(s) |-> IF c \in keep THEN c ELSE ""], s, 1, Len(s))

RECURSIVE splitBy(_, _)
\* String.prototype.split with a pattern that matches no empty string
splitBy(s, pat) ==
  LET m == match(s, pat)
  IN IF m.ok THEN <<SubSeq(s, 1, m.index - 1)>> \o splitBy(SubSeq(s, m.end, Len(s)), pat)
     ELSE <<s>>

RECURSIVE parseInt(_)
\* parseInt of a string of digits
parseInt(s) ==
  IF s = "" THEN 0
  ELSE 10 * parseInt(SubSeq(s, 1, Len(s) - 1))
       + (CHOOSE d \in 0..9 : CharAt("0123456789", d + 1) = CharAt(s, Len(s)))

\* JavaScript numbers with a fraction are kept in hundredths (3.99 is 399);
\* the inputs of the model carry at most two decimals
Hundredths == 100

\* parseFloat of a match of \d+\.?\d*
parseFloat(s) ==
  LET parts == split(s, ".")
      frac == IF Len(parts) > 1 THEN SubSeq(parts[2] \o "00", 1, 2) ELSE "00"
  IN parseInt(parts[1]) * Hundredths + parseInt(frac)

\* !x for a string or undefined
Falsy(v) == v = Undefined \/ v = ""

\* slice(0, n)
FirstN(seq, n) == SubSeq(seq, 1, IF Len(seq) < n THEN Len(seq) ELSE n)

\* a Date object: an instant (kept as the calendar day it falls on, the
\* process running in UTC), an Invalid Date, or no Date at all
DateOf(y, m, d) == [kind |-> "date", y |-> y, m |-> m, d |-> d]
InvalidDate == [kind |-> "invalid", y |-> 0, m |-> 0, d |-> 0]
UndefinedDate == [kind |-> "undefined", y |-> 0, m |-> 0, d |-> 0]

\* the seq reversed: [...lines].reverse()
reverse(seq) == [k \in 1..Len(seq) |-> seq[Len(seq) + 1 - k]]

\* an absent number (amounts are never negative)
UndefinedNumber == -1

\* !x for a number or undefined
FalsyNumber(n) == n = UndefinedNumber \/ n = 0

\* String.prototype.replace with a pattern without the flag g
replaceFirst(s, pat, by) ==
  LET m == match(s, pat)
  IN IF m.ok THEN SubSeq(s, 1, m.index - 1) \o by \o SubSeq(s, m.end, Len(s)) ELSE s

\* String.prototype.replace(/[...]/g, by) for a class of characters
ReplaceChars(s, set, by) ==
  IF s = "" THEN ""
  ELSE ConcatMap([c \in CharsOf(s) |-> IF c \in set THEN by ELSE c], s, 1, Len(s))

RECURSIVE join(_)
\* Array.prototype.join(' ')
join(seq) ==
  IF seq = <<>> THEN ""
  ELSE IF Len(seq) = 1 THEN seq[1]
  ELSE seq[1] \o " " \o join(Tail(seq))

\* String.prototype.replace(/\s{2,}/g, ' ')
CollapseSpaces(s) == join(splitBy(s, Rep(Space, 2, Inf)))

RECURSIVE numberToString(_)
\* String(n) of a natural number
numberToString(n) ==
  IF n < 10 THEN SubSeq("0123456789", n + 1, n + 1)
  ELSE numberToString(n \div 10) \o SubSeq("0123456789", (n % 10) + 1, (n % 10) + 1)

\* Number.prototype.toFixed(2) of an amount in hundredths
toFixed2(h) ==
  numberToString(h \div Hundredths) \o "." \o numberToString((h % Hundredths) \div 10)
    \o numberToString(h % 10)

\* String(price) of an amount in hundredths
amountToString(h) ==
  IF h % Hundredths = 0 THEN numberToString(h \div Hundredths)
  ELSE IF h % 10 = 0
    THEN numberToString(h \div Hundredths) \o "." \o numberToString((h % Hundredths) \div 10)
  ELSE toFixed2(h)

\* the pattern a string of digits and dots is as a regular-expression source:
\* a dot stands for any character
SourceOf(w) ==
  IF w = "" THEN <<>>
  ELSE ConcatMap([c \in CharsOf(w) |-> IF c = "." THEN <<Cls(TRUE, NotNewline, 1, 1, TRUE)>>
                                        ELSE LitCS(c)], w, 1, Len(w))

\* new RegExp(`\\b${w}\\b`)
WholeWord(w) == WordBoundary \o SourceOf(w) \o WordBoundary

RECURSIVE Sum(_)
Sum(seq) == IF seq = <<>> THEN 0 ELSE Head(seq) + Sum(Tail(seq))

\* Math.abs
Abs(n) == IF n < 0 THEN -n ELSE n

\* an emitted item; price is the price parsed for its line, which decided
\* the emission and is not part of the output
LineItem(name, quantity, price) == [name |-> name, quantity |-> quantity, price |-> price]

\* a recognised word: its text, the corner of its box and its confidence
Word(txt, wx, wy, confidence) == [text |-> txt, x |-> wx, y |-> wy, confidence |-> confidence]


\* --- store name ---
\* tinPatterns
tinPatterns ==
  << Lit("TIN") \o Star(Space) \o Opt({":"}) \o Star(Space) \o Opt({":", "-"})
       \o Star(Space) \o Plus(Digit),
     Lit("TIN") \o Plus(Space) \o Lit("NO") \o Opt({".", ":"}) \o Star(Space)
       \o Opt({":"}) \o Star(Space) \o Plus(Digit),
     Lit("TIN") \o Plus(Space) \o Lit("NUMBER") \o Opt({".", ":"}) \o Star(Space)
       \o Opt({":"}) \o Star(Space) \o Plus(Digit),
     Lit("TAX") \o Plus(Space) \o Lit("ID") \o Opt({".", ":"}) \o Star(Space)
       \o Opt({":"}) \o Star(Space) \o Plus(Digit),
     Lit("TAX") \o Plus(Space) \o Lit("IDENTIFICATION") \o Plus(Space)
       \o Lit("NUMBER") \o Opt({".", ":"}) \o Star(Space) \o Opt({":"})
       \o Star(Space) \o Plus(Digit) >>

MatchesTin(line) == \E k \in 1..Len(tinPatterns) : test(tinPatterns[k], line)

\* \d{1,2}[\/\-]\d{1,2}[\/\-]\d{2,4}
NumericDate ==
  Rep(Digit, 1, 2) \o One({"/", "-"}) \o Rep(Digit, 1, 2) \o One({"/", "-"})
  \o Rep(Digit, 2, 4)

\* /TOTAL|AMOUNT|SUM|DATE|TAX|SUB|PHONE|TEL|TIN/i
MetadataWords == {"TOTAL", "AMOUNT", "SUM", "DATE", "TAX", "SUB", "PHONE", "TEL", "TIN"}

\* /powered\s+by|thank\s+you|visit\s+us|website|www\.|http/i
FooterPhrase ==
  Or(<< Lit("powered") \o Plus(Space) \o Lit("by"),
        Lit("thank") \o Plus(Space) \o Lit("you"),
        Lit("visit") \o Plus(Space) \o Lit("us"),
        Lit("website"), Lit("www."), Lit("http") >>)

\* /^\d+$/
DigitsOnly == Plus(Digit) \o End

\* the test a line after a TIN line has to pass to be taken as store name
NextLineQualifies(nextLine) ==
  /\ nextLine # ""
  /\ Len(nextLine) >= 3
  /\ Len(nextLine) <= 60
  /\ ~testStart(NumericDate, nextLine)
  /\ ~ContainsAnyCI(nextLine, MetadataWords)
  /\ ~test(FooterPhrase, nextLine)
  /\ ~testStart(DigitsOnly, nextLine)

\* line.replace(/[^\w\s&'.-]/g, '').trim()
CleanStoreName(line) ==
  trim(RemoveChars(line, WordChar \cup Space \cup {"&", "'", ".", "-"}))

RECURSIVE TinStoreNameFrom(_, _)
\* the loop over lines[i], i < lines.length - 1: the first TIN line whose next
\* line qualifies gives the store name
TinStoreNameFrom(lines, i) ==
  IF i >= Len(lines) THEN Undefined
  ELSE IF MatchesTin(lines[i]) /\ NextLineQualifies(lines[i + 1])
    THEN CleanStoreName(lines[i + 1])
  ELSE TinStoreNameFrom(lines, i + 1)

RECURSIVE FallbackStoreNameFrom(_)
\* the first of the lines that matches storeNamePattern or has 6 to 49
\* characters
FallbackStoreNameFrom(ls) ==
  LET storeNamePattern ==
        {"STORE", "MARKET", "RESTAURANT", "SHOP", "SUPERMARKET", "GROCERY"}
  IN IF ls = <<>> THEN Undefined
     ELSE IF ContainsAnyCI(Head(ls), storeNamePattern)
             \/ (Len(Head(ls)) > 5 /\ Len(Head(ls)) < 50)
       THEN CleanStoreName(Head(ls))
     ELSE FallbackStoreNameFrom(Tail(ls))

\* the fallback over lines.slice(0, 5), used when nothing was found before
FallbackStoreName(found, lines) ==
  IF Falsy(found) THEN FallbackStoreNameFrom(FirstN(lines, 5)) ELSE found

\* --- purchase date ---
\* the days of month m of year y
DaysInMonth(y, m) ==
  LET leap == (y % 4 = 0 /\ y % 100 # 0) \/ y % 400 = 0
  IN IF m = 2 THEN (IF leap THEN 29 ELSE 28)
     ELSE IF m \in {4, 6, 9, 11} THEN 30 ELSE 31

\* the day an ISO date string with month 1..12 and day 1..31 denotes: the
\* V8 engine of Node.js accepts every day up to 31 and carries the excess
\* into the next month
IsoDay(y, m, d) ==
  IF d > DaysInMonth(y, m) THEN DateOf(y, m + 1, d - DaysInMonth(y, m))
  ELSE DateOf(y, m, d)

\* new Date(string): a string of the form YYYY-MM-DD, the date-only form of
\* the ISO format, is decoded as specified; any other string goes to the
\* engine's own parser, whose result the language leaves open and is passed
\* in as legacy
newDate(s, legacy) ==
  LET isoShape == Rep(Digit, 4, 4) \o One({"-"}) \o Rep(Digit, 2, 2) \o One({"-"})
                  \o Rep(Digit, 2, 2) \o End
      y == parseInt(SubSeq(s, 1, 4))
      m == parseInt(SubSeq(s, 6, 7))
      d == parseInt(SubSeq(s, 9, 10))
  IN IF testStart(isoShape, s)
     THEN (IF m \in 1..12 /\ d \in 1..31 THEN IsoDay(y, m, d) ELSE InvalidDate)
     ELSE legacy

\* datePatterns, in the order they are tried
datePatterns ==
  LET \* (?:\s+\d{1,2}\s*:\s*\d{1,2})?
      time == Maybe(Plus(Space) \o Rep(Digit, 1, 2) \o Star(Space) \o One({":"})
                    \o Star(Space) \o Rep(Digit, 1, 2))
      month == Or(<< Lit("Jan"), Lit("Feb"), Lit("Mar"), Lit("Apr"), Lit("May"),
                     Lit("Jun"), Lit("Jul"), Lit("Aug"), Lit("Sep"), Lit("Oct"),
                     Lit("Nov"), Lit("Dec") >>)
      gap == Plus(Space \cup {","})
  IN << Lit("DATE") \o Star(Space) \o Opt({":"}) \o Star(Space) \o Group(1, NumericDate)
          \o time,
        Group(1, NumericDate) \o time,
        Group(1, Rep(Digit, 4, 4) \o One({"/", "-"}) \o Rep(Digit, 1, 2) \o One({"/", "-"})
                   \o Rep(Digit, 1, 2)),
        Group(1, month) \o gap \o Group(2, Rep(Digit, 1, 2)) \o gap
          \o Group(3, Rep(Digit, 2, 4)),
        Group(1, Rep(Digit, 1, 2)) \o Plus(Space) \o Group(2, month) \o gap
          \o Group(3, Rep(Digit, 2, 4)) >>

\* the Date built from the text a date pattern captured
DecodeDate(dateString, legacy) ==
  LET padStart2(s) == IF Len(s) < 2 THEN "0" \o s ELSE s
      fromParts(day, month, year) ==
        IF Len(day) <= 2 /\ Len(month) <= 2
        THEN newDate(year \o "-" \o padStart2(month) \o "-" \o padStart2(day), legacy)
        ELSE newDate(ReplaceChars(dateString, {"/"}, "-"), legacy)
      fromSlashes(parts) ==
        IF Len(parts) = 3
        THEN fromParts(parts[1], parts[2],
                       IF Len(parts[3]) = 2
                       THEN (IF parseInt(parts[3]) < 50 THEN "20" ELSE "19") \o parts[3]
                       ELSE parts[3])
        ELSE newDate(dateString, legacy)
  IN IF includes(dateString, "/") THEN fromSlashes(split(dateString, "/"))
     ELSE newDate(dateString, legacy)

\* the decoded date is kept when it is a valid Date and
\* dateYear >= 2000 && dateYear <= currentYear + 1
DateAccepted(date, thisYear) ==
  date.kind = "date" /\ date.y >= 2000 /\ date.y <= thisYear + 1

RECURSIVE DateFromPatterns(_, _, _, _)
\* the loop over datePatterns for one line: the first pattern that matches
\* and whose text decodes to an accepted date
DateFromPatterns(line, k, thisYear, legacy) ==
  IF k > Len(datePatterns) THEN UndefinedDate
  ELSE LET kept(m, date) ==
             IF m.ok /\ DateAccepted(date, thisYear) THEN date
             ELSE DateFromPatterns(line, k + 1, thisYear, legacy)
           decoded(m) == kept(m, DecodeDate(trim(Captured(line, m, 1)), legacy))
       IN decoded(match(line, datePatterns[k]))

RECURSIVE DateFromLines(_, _, _)
\* the loop over the lines, stopped by the first accepted date
DateFromLines(ls, thisYear, legacy) ==
  IF ls = <<>> THEN UndefinedDate
  ELSE LET kept(date) ==
             IF date.kind # "undefined" THEN date
             ELSE DateFromLines(Tail(ls), thisYear, legacy)
       IN kept(DateFromPatterns(Head(ls), 1, thisYear, legacy))

\* --- total amount ---
\* (\d+\.?\d*)
DecimalNumber == Plus(Digit) \o Opt({"."}) \o Star(Digit)

\* totalPatterns, in the order they are tried
totalPatterns ==
  LET gap == Star(Space \cup {":"})
  IN << Lit("TOTAL") \o gap \o Opt({"$"}) \o Group(1, DecimalNumber),
        Lit("AMOUNT") \o gap \o Opt({"$"}) \o Group(1, DecimalNumber),
        Lit("SUM") \o gap \o Opt({"$"}) \o Group(1, DecimalNumber),
        Lit("TOTAL") \o gap \o Group(1, DecimalNumber) >>

\* /\$?(\d+\.\d{2})/
StandaloneNumber ==
  Opt({"$"}) \o Group(1, Plus(Digit) \o One({"."}) \o Rep(Digit, 2, 2))

RECURSIVE LabelledTotal(_, _, _)
\* the loop over totalPatterns for one line: the number after the first label
\* that matches replaces the amount found so far
LabelledTotal(line, k, soFar) ==
  IF k > Len(totalPatterns) THEN soFar
  ELSE LET m == match(line, totalPatterns[k])
       IN IF m.ok /\ Captured(line, m, 1) # ""
          THEN parseFloat(Captured(line, m, 1))
          ELSE LabelledTotal(line, k + 1, soFar)

\* amount > 0 && amount < 100000
MaxStandalone == 100000

\* the amount after one line of the scan; the standalone number of the line
\* is looked at while the amount is still absent or zero
\* (numberMatch && !extracted.totalAmount)
TotalAfterLine(line, soFar) ==
  LET standalone(afterLabels, numberMatch, amount) ==
        IF numberMatch.ok /\ FalsyNumber(afterLabels)
           /\ amount > 0 /\ amount < MaxStandalone * Hundredths
        THEN amount
        ELSE afterLabels
      matched(afterLabels, numberMatch) ==
        standalone(afterLabels, numberMatch, parseFloat(Captured(line, numberMatch, 1)))
  IN matched(LabelledTotal(line, 1, soFar), match(line, StandaloneNumber))

RECURSIVE TotalFromLines(_, _)
\* the scan of reversedLines, stopped by the first line that leaves a
\* non-zero amount
TotalFromLines(ls, soFar) ==
  IF ls = <<>> THEN soFar
  ELSE LET next(t) == IF ~FalsyNumber(t) THEN t ELSE TotalFromLines(Tail(ls), t)
       IN next(TotalAfterLine(Head(ls), soFar))

totalAmountOf(lines) == TotalFromLines(reverse(lines), UndefinedNumber)

\* --- items ---



\* headerPatterns, in the order they are tried
headerPatterns ==
  << Lit("description") \o Plus(Space) \o Lit("qty") \o Plus(Space) \o Lit("price") \o Plus(Space) \o Lit("amount"),
     Lit("description") \o Plus(Space) \o Lit("oty") \o Plus(Space) \o Lit("price") \o Plus(Space) \o Lit("amount"),
     Lit("description") \o Plus(Space) \o Lit("qty") \o Plus(Space) \o Lit("price"),
     Lit("description") \o Plus(Space) \o Lit("oty") \o Plus(Space) \o Lit("price"),
     Lit("desc") \o Plus(Space) \o Lit("qty") \o Plus(Space) \o Lit("price") \o Plus(Space) \o Lit("amount"),
     Lit("desc") \o Plus(Space) \o Lit("oty") \o Plus(Space) \o Lit("price") \o Plus(Space) \o Lit("amount"),
     Lit("desc") \o Plus(Space) \o Lit("qty") \o Plus(Space) \o Lit("price"),
     Lit("desc") \o Plus(Space) \o Lit("oty") \o Plus(Space) \o Lit("price"),
     Lit("description") \o AnyStar \o Lit("qty") \o AnyStar \o Lit("price") \o AnyStar \o Lit("amount"),
     Lit("description") \o AnyStar \o Lit("oty") \o AnyStar \o Lit("price") \o AnyStar \o Lit("amount"),
     Lit("description") \o AnyStar \o Lit("qty") \o AnyStar \o Lit("price"),
     Lit("description") \o AnyStar \o Lit("oty") \o AnyStar \o Lit("price") >>

RECURSIVE HeaderIndexFrom(_, _)
\* the position of the first line one of headerPatterns matches, 0 when
\* there is none (the code's headerIndex is one less)
HeaderIndexFrom(lines, i) ==
  IF i > Len(lines) THEN 0
  ELSE IF \E k \in 1..Len(headerPatterns) : test(headerPatterns[k], toLowerCase(lines[i]))
    THEN i
  ELSE HeaderIndexFrom(lines, i + 1)

\* /^[=\-_\s]+$/
SeparatorLine == Plus({"=", "-", "_"} \cup Space) \o End

\* /^date\s*:?\s*\d|^\d{1,2}[\/\-]\d{1,2}[\/\-]\d{2,4}/
DateLineStart ==
  Or(<< Lit("date") \o Star(Space) \o Opt({":"}) \o Star(Space) \o One(Digit), NumericDate >>)

\* /fs\s*no/
FsNo == Lit("fs") \o Star(Space) \o Lit("no")

\* /city\s+mall/
CityMall == Lit("city") \o Plus(Space) \o Lit("mall")

\* /h\.no|address|street|subcity|woreda/i
AddressWords == {"h.no", "address", "street", "subcity", "woreda"}

\* the test that makes the fallback path skip a line
FallbackSkips(line) ==
  \/ ContainsAnyCI(line, {"TOTAL", "AMOUNT", "SUM", "DATE", "STORE", "TAX", "SUB",
                          "DESCRIPTION", "QTY", "OTY", "PRICE"})
  \/ test(FooterPhrase, line)
  \/ ContainsAnyCI(line, {"tin", "tel", "phone", "ref", "operator", "waiter", "table",
                          "erca"})
  \/ test(FsNo, line)
  \/ ContainsAnyCI(line, AddressWords)
  \/ test(CityMall, line)
  \/ testStart(DateLineStart, toLowerCase(line))
  \/ testStart(SeparatorLine, line)
  \/ Len(line) < 3
  \/ Len(line) > 100

\* itemPattern of the fallback path
itemPattern ==
  Group(1, AnyPlusLazy)
  \o Maybe(Plus(Space) \o Group(2, Plus(Digit)) \o Star(Space) \o Opt({"x"}) \o Star(Space))
  \o Maybe(Opt({"$"}) \o Group(3, DecimalNumber))
  \o End

\* /tin|tel|phone|date|ref|operator|waiter|table|fs\s*no|erca/i without
\* fs\s*no: the words that keep a name out of the items, in both paths
NameContactWords ==
  {"tin", "tel", "phone", "date", "ref", "operator", "waiter", "table", "erca"}

\* the items the fallback path emits for one line; of the numbers it asks
\* price && price > 0 and nothing else
FallbackItemsOf(line) ==
  LET m == matchStart(line, itemPattern)
      name == trim(Captured(line, m, 1))
      g2 == Captured(line, m, 2)
      g3 == Captured(line, m, 3)
      quantity == IF Falsy(g2) THEN UndefinedNumber ELSE parseInt(g2)
      price == IF Falsy(g3) THEN UndefinedNumber ELSE parseFloat(g3)
  IN IF /\ ~FallbackSkips(line)
        /\ m.ok
        /\ Len(name) >= 3
        /\ Len(name) < 80
        /\ ~FalsyNumber(price)
        /\ price > 0
        /\ ~test(FooterPhrase, name)
        /\ ~ContainsAnyCI(name, NameContactWords)
        /\ ~test(FsNo, name)
        /\ ~ContainsAnyCI(name, AddressWords)
        /\ ~testStart(DigitsOnly, toLowerCase(name))
     THEN << LineItem(name, quantity, price) >>
     ELSE <<>>

RECURSIVE FallbackItems(_)
FallbackItems(ls) ==
  IF ls = <<>> THEN <<>> ELSE FallbackItemsOf(Head(ls)) \o FallbackItems(Tail(ls))

\* --- items below a header row ---
\* the test that ends the item lines
EndsItems(line) ==
  LET \* /^(TOTAL|SUBTOTAL|TAX|GRAND\s+TOTAL|SUM|CASH|ITEM#)/i
      summaryStart ==
        Or(<< Lit("TOTAL"), Lit("SUBTOTAL"), Lit("TAX"),
              Lit("GRAND") \o Plus(Space) \o Lit("TOTAL"), Lit("SUM"), Lit("CASH"),
              Lit("ITEM#") >>)
      \* /^\s*[-=_]+\s*$/
      ruleLine == Star(Space) \o Plus({"-", "=", "_"}) \o Star(Space) \o End
      \* /SUBTOTAL|TXBL|TAX\d+|CASH|ITEM#/i
      summaryWord ==
        Or(<< Lit("SUBTOTAL"), Lit("TXBL"), Lit("TAX") \o Plus(Digit), Lit("CASH"),
              Lit("ITEM#") >>)
      \* /^\w+\s+\d/
      wordThenDigit == Plus(WordChar) \o Plus(Space) \o One(Digit)
  IN \/ testStart(summaryStart, line)
     \/ testStart(ruleLine, line)
     \/ test(Lit("powered") \o Plus(Space) \o Lit("by"), line)
     \/ test(Lit("thank") \o Plus(Space) \o Lit("you"), line)
     \/ test(Lit("visit") \o Plus(Space) \o Lit("us"), line)
     \/ (test(summaryWord, line) /\ ~testStart(wordThenDigit, line))

\* the test that makes the header path pass over a line
HeaderSkips(line) ==
  LET lowerLine == toLowerCase(line)
  IN \/ Len(trim(line)) < 2
     \/ ContainsAnyCI(lowerLine, {"h.no", "address", "street", "road", "avenue",
                                  "subcity", "woreda", "kebele", "megenagna"})
     \/ test(LitCS("h.") \o Star(Space) \o LitCS("no"), lowerLine)
     \/ test(Plus(Digit) \o One({"/"}) \o Plus(Digit) \o AnyStar \o One({"k", "m"}), lowerLine)
     \/ test(CityMall, lowerLine)
     \/ testStart(LitCS("tel"), lowerLine)
     \/ testStart(LitCS("phone"), lowerLine)
     \/ testStart(Rep(Digit, 9, Inf), lowerLine)
     \/ test(Lit("tel") \o Star(Space) \o Opt({":"}) \o Star(Space) \o Plus(Digit), lowerLine)
     \/ testStart(Lit("tin"), lowerLine)
     \/ test(Lit("tin") \o Star(Space) \o Opt({":"}) \o Star(Space) \o Plus(Digit), lowerLine)
     \/ testStart(DateLineStart, lowerLine)
     \/ testStart(Or(<<Lit("ref"), Lit("operator"), Lit("waiter"), Lit("table")>>)
                    \o Star(Space) \o One({":"}), lowerLine)
     \/ test(Lit("ref:") \o Star(Space) \o Plus(Lower \cup Upper) \o One({"-"}) \o Plus(Digit),
             lowerLine)
     \/ testStart(Or(<<FsNo, Lit("erca"), Lit("cash") \o Plus(Space) \o Lit("invoice")>>), lowerLine)
     \/ testStart(SeparatorLine, line)

\* (\d+\.\d{2}|\d+\.\d+)
DecimalPrice ==
  Or(<< Plus(Digit) \o One({"."}) \o Rep(Digit, 2, 2), Plus(Digit) \o One({"."}) \o Plus(Digit) >>)

\* /^(.+?)\s+(\d{1,3})\s+(\d+\.\d{2}|\d+\.\d+|\d+)/
itemPatternWithQty ==
  Group(1, AnyPlusLazy) \o Plus(Space) \o Group(2, Rep(Digit, 1, 3)) \o Plus(Space)
  \o Group(3, Or(<< Plus(Digit) \o One({"."}) \o Rep(Digit, 2, 2),
                    Plus(Digit) \o One({"."}) \o Plus(Digit),
                    Plus(Digit) >>))

\* quantity >= 1 && quantity <= 999
QuantityInRange(q) == q >= 1 /\ q <= 999

\* price > 0 && price < 1000000
PriceInRange(p) == p > 0 /\ p < 1000000 * Hundredths

\* what is known of an item line: name, quantity and price, and priceIndex
NothingParsed ==
  [itemName |-> "", quantity |-> UndefinedNumber, price |-> UndefinedNumber]

\* strategy 1: name, quantity and price by one pattern
Strategy1(line) ==
  LET m == matchStart(line, itemPatternWithQty)
      extractedName == trim(Captured(line, m, 1))
      extractedQty == parseInt(Captured(line, m, 2))
      extractedPrice == parseFloat(Captured(line, m, 3))
  IN IF m.ok /\ Len(extractedName) >= 3 /\ QuantityInRange(extractedQty)
        /\ PriceInRange(extractedPrice)
     THEN [itemName |-> extractedName, quantity |-> extractedQty, price |-> extractedPrice]
     ELSE NothingParsed

\* line.split(/\s{2,}|\t+/).filter(p => p.trim().length > 0)
Columns(line) ==
  SelectSeq(splitBy(line, Or(<< Rep(Space, 2, Inf), Plus({"\t"}) >>)), LAMBDA c : trim(c) # "")

\* /^(\d{1,3})$/
QuantityColumn == Rep(Digit, 1, 3) \o End

RECURSIVE PriceIndexFrom(_, _)
\* the last column but the first that holds a decimal number in range; 0 when
\* there is none (the columns are numbered from 1)
PriceIndexFrom(parts, i) ==
  IF i < 2 THEN 0
  ELSE LET m == match(parts[i], Group(1, DecimalPrice))
       IN IF m.ok /\ PriceInRange(parseFloat(Captured(parts[i], m, 1))) THEN i
          ELSE PriceIndexFrom(parts, i - 1)

RECURSIVE QuantityBefore(_, _, _)
\* the nearest column before the price, the first excluded, that is a
\* quantity in range and differs from the price
QuantityBefore(parts, i, price) ==
  IF i < 2 THEN UndefinedNumber
  ELSE LET q == parseInt(parts[i])
       IN IF testStart(QuantityColumn, parts[i]) /\ QuantityInRange(q)
             /\ (FalsyNumber(price) \/ q * Hundredths # price)
          THEN q
          ELSE QuantityBefore(parts, i - 1, price)

RECURSIVE QtyColIndexFrom(_, _, _, _)
\* the first column after the first and before the price that reads as the
\* quantity; 0 when there is none
QtyColIndexFrom(parts, i, priceIndex, quantity) ==
  IF i >= priceIndex THEN 0
  ELSE IF testStart(QuantityColumn, parts[i]) /\ parseInt(parts[i]) = quantity THEN i
  ELSE QtyColIndexFrom(parts, i + 1, priceIndex, quantity)

\* strategy 2: the columns of the line
Strategy2(line, st) ==
  LET \* itemName, once the columns of the quantity and of the price are known
      itemName(parts, priceIndex, qtyColIndex) ==
        IF ~(st.itemName = "" \/ Len(st.itemName) < 3) THEN st.itemName
        ELSE IF qtyColIndex > 1 THEN trim(join(SubSeq(parts, 1, qtyColIndex - 1)))
        ELSE IF priceIndex > 1 THEN trim(join(SubSeq(parts, 1, priceIndex - 1)))
        ELSE trim(parts[1])
      qtyColIndex(parts, priceIndex, quantity) ==
        IF ~FalsyNumber(quantity) /\ priceIndex > 1
        THEN QtyColIndexFrom(parts, 2, priceIndex, quantity)
        ELSE 0
      named(parts, priceIndex, quantity, price) ==
        [itemName |-> itemName(parts, priceIndex, qtyColIndex(parts, priceIndex, quantity)),
         quantity |-> quantity, price |-> price]
      \* the column right before the price, then the columns before it
      direct(parts, priceIndex) ==
        IF priceIndex > 1 /\ FalsyNumber(st.quantity)
           /\ testStart(QuantityColumn, parts[priceIndex - 1])
           /\ QuantityInRange(parseInt(parts[priceIndex - 1]))
        THEN parseInt(parts[priceIndex - 1])
        ELSE st.quantity
      quantity(parts, priceIndex, price, found) ==
        IF FalsyNumber(found) /\ priceIndex > 2
        THEN QuantityBefore(parts, priceIndex - 1, price)
        ELSE found
      withPrice(parts, priceIndex, price) ==
        named(parts, priceIndex,
              quantity(parts, priceIndex, price, direct(parts, priceIndex)), price)
      priceValue(part) == parseFloat(Captured(part, match(part, Group(1, DecimalPrice)), 1))
      withPriceIndex(parts, priceIndex) ==
        withPrice(parts, priceIndex,
                  IF priceIndex > 0 /\ FalsyNumber(st.price)
                  THEN priceValue(parts[priceIndex]) ELSE st.price)
      withParts(parts) ==
        IF (FalsyNumber(st.quantity) \/ FalsyNumber(st.price)) /\ Len(parts) >= 2
        THEN withPriceIndex(parts, PriceIndexFrom(parts, Len(parts)))
        ELSE st
  IN withParts(Columns(line))

\* strategy 3: a quantity and a price anywhere in the line, the name what is
\* left of the line
Strategy3(line, st) ==
  LET \* the line without the quantity, the price and the signs
      cleanLine(quantity, price) ==
        LET noQuantity ==
              IF ~FalsyNumber(quantity)
              THEN replaceFirst(line, WholeWord(numberToString(quantity)), "") ELSE line
            noPrice ==
              IF ~FalsyNumber(price)
              THEN replaceFirst(replaceFirst(noQuantity, WholeWord(toFixed2(price)), ""),
                                WholeWord(amountToString(price)), "")
              ELSE noQuantity
        IN trim(CollapseSpaces(trim(ReplaceChars(noPrice, {"+", "-", "%", "$"}, ""))))
      named(quantity, price) ==
        [itemName |-> IF st.itemName = "" \/ Len(st.itemName) < 3
                      THEN cleanLine(quantity, price) ELSE st.itemName,
         quantity |-> quantity, price |-> price]
      quantity(qtyMatch, extractedQty, pricePos, price) ==
        IF qtyMatch.ok /\ FalsyNumber(st.quantity) /\ QuantityInRange(extractedQty)
           /\ (FalsyNumber(price) \/ extractedQty * Hundredths # price)
           /\ qtyMatch.index - 1 < pricePos
        THEN extractedQty ELSE st.quantity
      pricePos(priceMatch) ==
        IF priceMatch.ok /\ priceMatch.index - 1 # 0 THEN priceMatch.index - 1 ELSE Len(line)
      price(priceMatch, extractedPrice) ==
        IF priceMatch.ok /\ FalsyNumber(st.price) /\ PriceInRange(extractedPrice)
        THEN extractedPrice ELSE st.price
      withPrice(qtyMatch, priceMatch, found) ==
        named(quantity(qtyMatch, parseInt(Captured(line, qtyMatch, 1)), pricePos(priceMatch),
                       found),
              found)
      withMatches(qtyMatch, priceMatch) ==
        withPrice(qtyMatch, priceMatch,
                  price(priceMatch, parseFloat(Captured(line, priceMatch, 1))))
  IN IF FalsyNumber(st.quantity) \/ FalsyNumber(st.price) \/ st.itemName = ""
        \/ Len(st.itemName) < 3
     \* /\b(\d{1,3})\b/ and /(\d+\.\d{2})/
     THEN withMatches(match(line, WordBoundary \o Group(1, Rep(Digit, 1, 3)) \o WordBoundary),
                      match(line, Group(1, DecimalPrice)))
     ELSE st

\* the clean-up of the name found by the strategies
CleanItemName(itemName) ==
  LET \* /\s+\d+\.?\d*\s*$/
      trailingNumber == Plus(Space) \o DecimalNumber \o Star(Space) \o End
      \* /[+\-%$|]+$/
      trailingSigns == Plus({"+", "-", "%", "$", "|"}) \o End
      \* /^[.,;:\s]+|[.,;:\s]+$/g
      punctuation == {".", ",", ";", ":"} \cup Space
      a == trim(replaceFirst(itemName, trailingNumber, ""))
      b == trim(replaceFirst(a, trailingSigns, ""))
  IN IF itemName = "" THEN ""
     ELSE trim(StripEnd(StripStart(b, punctuation), punctuation))

\* the final validation of quantity and price
Validated(st) ==
  [st EXCEPT
     !.quantity = IF ~FalsyNumber(@) /\ ~QuantityInRange(@) THEN UndefinedNumber ELSE @,
     !.price = IF ~FalsyNumber(@) /\ ~PriceInRange(@) THEN UndefinedNumber ELSE @]

\* itemName.replace(/[^\w\s&'.-]/g, ' ').trim()
FinalItemName(itemName) ==
  trim(ReplaceChars(itemName,
         {CharAt(itemName, k) : k \in 1..Len(itemName)}
           \ (WordChar \cup Space \cup {"&", "'", ".", "-"}), " "))

\* the items the header path emits for one line that is neither skipped nor
\* the end of the items
HeaderItemsOf(line) ==
  LET emitted(st, cleanItemName) ==
        IF /\ Len(st.itemName) >= 3
           /\ Len(st.itemName) < 100
           /\ ~FalsyNumber(st.price)
           /\ st.price > 0
           /\ ~ContainsAnyCI(cleanItemName, {"description", "qty", "oty", "price", "total",
                                             "amount", "sum", "tax", "subtotal"})
           /\ ~test(FooterPhrase, cleanItemName)
           /\ ~ContainsAnyCI(cleanItemName, NameContactWords)
           /\ ~test(FsNo, cleanItemName)
           /\ ~ContainsAnyCI(cleanItemName, AddressWords)
           /\ ~testStart(DigitsOnly, cleanItemName)
           /\ ~testStart(SeparatorLine, cleanItemName)
        THEN << LineItem(FinalItemName(st.itemName), st.quantity, st.price) >>
        ELSE <<>>
      validated(st) == emitted(st, toLowerCase(st.itemName))
      cleaned(parsed) == validated(Validated([parsed EXCEPT !.itemName = CleanItemName(@)]))
  IN cleaned(Strategy3(line, Strategy2(line, Strategy1(line))))

RECURSIVE HeaderItems(_)
\* the loop over the lines below the header row
HeaderItems(ls) ==
  IF ls = <<>> THEN <<>>
  ELSE IF EndsItems(Head(ls)) THEN <<>>
  ELSE IF HeaderSkips(Head(ls)) THEN HeaderItems(Tail(ls))
  ELSE HeaderItemsOf(Head(ls)) \o HeaderItems(Tail(ls))

\* extracted.items
itemsOf(lines) ==
  LET headerIndex == HeaderIndexFrom(lines, 1)
  IN IF headerIndex # 0 THEN HeaderItems(SubSeq(lines, headerIndex + 1, Len(lines)))
     ELSE FallbackItems(lines)

\* --- store name from the word geometry ---
getY(word) == word.y
getX(word) == word.x

\* the comparator of the sort: words less than 10 apart in height are
\* ordered from left to right, the others from top to bottom
CompareWords(a, b) ==
  IF Abs(getY(a) - getY(b)) < 10 THEN getX(a) - getX(b) ELSE getY(a) - getY(b)

RECURSIVE InsertWord(_, _)
InsertWord(sorted, w) ==
  IF sorted = <<>> THEN <<w>>
  ELSE IF CompareWords(sorted[Len(sorted)], w) <= 0 THEN Append(sorted, w)
  ELSE Append(InsertWord(SubSeq(sorted, 1, Len(sorted) - 1), w), sorted[Len(sorted)])

RECURSIVE SortWords(_)
\* Array.prototype.sort, which is stable
SortWords(ws) ==
  IF ws = <<>> THEN <<>>
  ELSE InsertWord(SortWords(SubSeq(ws, 1, Len(ws) - 1)), ws[Len(ws)])

\* [...words].filter(...).sort(...)
sortedWordsOf(wds) == SortWords(SelectSeq(wds, LAMBDA w : trim(w.text) # ""))

\* getY(sortedWords[Math.floor(sortedWords.length * 0.2)]) would read a word
\* that is not there; it is evaluated only when sortedWords.length > 0
ThresholdThrows(sortedWords) ==
  Len(sortedWords) > 0 /\ (Len(sortedWords) \div 5) + 1 > Len(sortedWords)

\* topThreshold
topThresholdOf(sortedWords) ==
  IF Len(sortedWords) > 0 THEN getY(sortedWords[(Len(sortedWords) \div 5) + 1]) ELSE 0

topWordsOf(sortedWords) ==
  SelectSeq(sortedWords, LAMBDA w : getY(w) <= topThresholdOf(sortedWords) + 50)

RECURSIVE GroupWords(_, _, _)
\* the loop over topWords.slice(0, 20): a word more than 15 below or above
\* the one before it starts a new line
GroupWords(ws, currentLine, lastY) ==
  IF ws = <<>> THEN (IF currentLine # <<>> THEN <<join(currentLine)>> ELSE <<>>)
  ELSE LET w == Head(ws)
           wordText == trim(w.text)
       IN IF wordText = "" THEN GroupWords(Tail(ws), currentLine, lastY)
          ELSE IF lastY >= 0 /\ Abs(getY(w) - lastY) > 15 /\ currentLine # <<>>
            THEN <<join(currentLine)>> \o GroupWords(Tail(ws), <<wordText>>, getY(w))
          ELSE GroupWords(Tail(ws), Append(currentLine, wordText), getY(w))

\* avgConfidence > 80 for the words of topWords whose text occurs in the line
HighConfidence(line, topWords) ==
  LET lineWords == SelectSeq(topWords, LAMBDA w : includes(line, trim(w.text)))
  IN Len(lineWords) > 0
     /\ Sum([k \in 1..Len(lineWords) |-> lineWords[k].confidence]) > 80 * Len(lineWords)

RECURSIVE TopLineStoreName(_, _, _, _)
\* the loop over topLines.slice(0, 5): every line that passes gives the
\* name, and the loop ends at one of the first two lines or at a line of
\* high confidence
TopLineStoreName(topLines, k, topWords, found) ==
  IF k > Len(topLines) \/ k > 5 THEN found
  ELSE LET \* topLines.indexOf(line), counted from 1
           indexOf == CHOOSE j \in 1..k : topLines[j] = topLines[k]
                        /\ \A i \in 1..(j - 1) : topLines[i] # topLines[k]
           skipped(cleanLine) ==
             \/ testStart(NumericDate, cleanLine)
             \/ ContainsAnyCI(cleanLine, MetadataWords)
             \/ test(FooterPhrase, cleanLine)
             \/ Len(cleanLine) < 3
             \/ Len(cleanLine) > 60
           named(storeName) ==
             IF HighConfidence(topLines[k], topWords) \/ indexOf < 3 THEN storeName
             ELSE TopLineStoreName(topLines, k + 1, topWords, storeName)
           read(cleanLine) ==
             IF skipped(cleanLine) THEN TopLineStoreName(topLines, k + 1, topWords, found)
             ELSE named(CleanStoreName(cleanLine))
       IN read(trim(topLines[k]))

\* the word-level strategies, used when no name was found before and words
\* were passed
WordLevelStoreName(found, wds) ==
  IF Falsy(found) /\ Len(wds) > 0
  THEN LET fromLines(topWords, topLines, tinBased) ==
             IF tinBased # Undefined /\ ~Falsy(tinBased) THEN tinBased
             ELSE TopLineStoreName(topLines, 1, topWords,
                                   IF tinBased # Undefined THEN tinBased ELSE found)
           grouped(topWords, topLines) ==
             fromLines(topWords, topLines, TinStoreNameFrom(topLines, 1))
           fromWords(topWords) ==
             grouped(topWords, GroupWords(FirstN(topWords, 20), <<>>, -1))
       IN fromWords(topWordsOf(sortedWordsOf(wds)))
  ELSE found

\* --- the whole of parseReceiptText ---
\* text.split('\n').map(line => line.trim()).filter(line => line.length > 0)
linesOf(txt) == SelectSeq([k \in 1..Len(split(txt, "\n")) |-> trim(split(txt, "\n")[k])],
                           LAMBDA l : Len(l) > 0)

\* a final log that does not ask whether a date was found
LogsFinalDate_Always(purchaseDate) == TRUE

\* if (extracted.purchaseDate) before the final log of the date
LogsFinalDate(purchaseDate) == purchaseDate.kind # "undefined"

\* extracted.storeName: the name next to the TIN, else the name the words
\* give, else the first line that reads as a name
storeNameOf(tinStoreName, lines, wds) ==
  FallbackStoreName(WordLevelStoreName(tinStoreName, wds), lines)

\* the ExtractedData returned for a text and its words, read in the year
\* thisYear by an engine whose own date parser answers legacy; threw
\* tells that the call ended in an exception instead
parseReceiptText(txt, wds, thisYear, legacy) ==
  LET lines == linesOf(txt)
      tinStoreName == TinStoreNameFrom(lines, 1)
      purchaseDate == DateFromLines(lines, thisYear, legacy)
  IN IF \/ (Falsy(tinStoreName) /\ Len(wds) > 0 /\ ThresholdThrows(sortedWordsOf(wds)))
        \* toISOString throws on anything but a valid Date
        \/ (LogsFinalDate(purchaseDate) /\ purchaseDate.kind # "date")
     THEN [threw |-> TRUE, storeName |-> Undefined, purchaseDate |-> UndefinedDate,
           totalAmount |-> UndefinedNumber, items |-> <<>>]
     ELSE [threw |-> FALSE,
           storeName |-> storeNameOf(tinStoreName, lines, wds),
           purchaseDate |-> purchaseDate,
           totalAmount |-> totalAmountOf(lines),
           items |-> itemsOf(lines)]

\* ---------------------------------------------------------------------
\* The calls of parseReceiptText on one OCRService
\* ---------------------------------------------------------------------
\* the year the process clock shows when the model starts
FirstYear == 2026

\* receipt texts as recognition returns them
Texts ==
  { "",
    "ab",
    "TIN: 123456789\nACME MARKET\nDATE: 14/08/2023\nMilk 2 3.99\nTOTAL: $45.67",
    "TIN: 123456789\n=====\nBread 2.50",
    "TIN: 123456789\nHOTEL AFRICA",
    "31/02/2023",
    "32/13/2023\n29/02/2024",
    "DATE: 15/03/2028",
    "15/03/1999\n01/02/05",
    "Jan 5, 2023",
    "Milk 0 3.99",
    "Milk 5000 3.99",
    "Gold 1 2000000.50",
    "Description Qty Price\nMilk 0 3.99\nGold 1 2000000.50\nNOLIN COFFEE   2   19.76   39.52\nTOTAL 39.52",
    "Desc  Oty  Price\nBread   2.50\nTea (hot)\t3\t1.5\n-----\nJuice 1 4.00",
    "AMOUNT: 0 NET 45.67",
    "TOTAL: 12.50\nTOTAL: 0.00",
    "TOTAL: $45.67\nCASH 50.00",
    "Bread 2.50\nx 200000.00",
    "Description Qty Price Amount\nMilk 2 3.99\nBread 1 2.50",
    "Description Qty Price Amount\nVegetable 2 3.99",
    "2023/08/14",
    "14/08/2023",
    "Description Qty Price\n(a) 2 3.99\n*** 1 2.50" }

\* the word geometry passed with the text: none, the words of a receipt
\* whose first row is the shop's name, and a single blank word
WordInputs ==
  { <<>>,
    << Word("12.50", 10, 300, 60), Word("COFFEE", 80, 6, 90), Word("Bole", 10, 40, 70),
       Word("KALDIS", 10, 5, 95) >>,
    << Word(" ", 1, 1, 50) >> }

\* what the engine's own date parser may answer for a string that is not in
\* the ISO format: the language leaves it to the engine
LegacyOutcomes == { InvalidDate, DateOf(2001, 1, 1) }

\* before the first call: the rest of the service idle, the text and the
\* words recognition returned, the clock in its first year
InitParse ==
  /\ InitAdapter /\ InitPipeline /\ layout = "same" /\ InitEnqueue /\ InitShutdown
  /\ text \in Texts
  /\ words \in WordInputs
  /\ currentYear = FirstYear
  /\ legacyDate \in LegacyOutcomes
  /\ results = <<>>

\* an item list that lives on the service and keeps the items of the call
\* before
InitialItems_Kept(rs) == IF rs = <<>> THEN <<>> ELSE rs[Len(rs)].out.items

\* const extracted = { items: [] }: every call starts from an empty list
InitialItems(rs) == <<>>

\* one call of parseReceiptText(text, words); the result is kept with the
\* year the clock showed
ParseReceiptText ==
  /\ Len(results) < MaxCalls
  /\ LET returned(out) == IF out.threw THEN out
                          ELSE [out EXCEPT !.items = InitialItems(results) \o @]
     IN results' = Append(results,
                     [year |-> currentYear,
                      out |-> returned(parseReceiptText(text, words, currentYear, legacyDate))])
  /\ UNCHANGED <<text, words, currentYear, legacyDate>>
  /\ UNCHANGED <<adapterVars, pipelineVars, enqueueVars, shutdownVars>>

\* the clock of the process passes the end of a year
NewYear ==
  /\ currentYear < FirstYear + MaxNewYears
  /\ currentYear' = currentYear + 1
  /\ UNCHANGED <<text, words, legacyDate, results>>
  /\ UNCHANGED <<adapterVars, pipelineVars, enqueueVars, shutdownVars>>

NextParse ==
  \/ ParseReceiptText
  \/ NewYear

SpecParse == InitParse /\ [][NextParse]_vars

\* C1: at most one createWorker attempt is in flight at any time and callers
\* arriving meanwhile await that attempt.
C1_SingleFlight == Cardinality(InFlight) <= 1

AllowedTransitions ==
  { <<"none", "waiting">>, <<"waiting", "active">>, <<"active", "completed">>,
    <<"active", "failed">>, <<"active", "delayed">>, <<"delayed", "waiting">> }

\* C3: a job's state changes only waiting -> active, active -> completed,
\* active -> failed, active -> delayed (only with retry budget left) and
\* delayed -> waiting (creation puts it in waiting); completed and failed are
\* never left.
C3_Transitions ==
  [][\A j \in Jobs :
       jobState'[j] # jobState[j] =>
         /\ <<jobState[j], jobState'[j]>> \in AllowedTransitions
         /\ jobState'[j] = "delayed" => attemptsMade'[j] < Attempts]_vars

\* C3 witness: a job is back in waiting after a failed attempt and its backoff
C3_Witness == \E j \in Jobs : jobState[j] = "waiting" /\ attemptsMade[j] > 0

\* C4: a job is never started more than `attempts` (3) times; a failed job has
\* been started exactly 3 times, every attempt failed, its failedReason is set,
\* and it never leaves failed.
C4_AttemptBudget ==
  /\ [](\A j \in Jobs :
          /\ attemptsStarted[j] <= Attempts
          /\ jobState[j] = "failed" =>
               /\ attemptsStarted[j] = Attempts
               /\ attemptsMade[j] = Attempts
               /\ failedReason[j] # "null"
               /\ jpc[j] = "none")
  /\ [][\A j \in Jobs : jobState[j] = "failed" => jobState'[j] = "failed"]_vars

\* C4 witness: a job has exhausted its budget and is failed
C4_Witness == \E j \in Jobs : jobState[j] = "failed" /\ attemptsMade[j] = Attempts

\* C5: with concurrency 2 and more than 2 jobs enqueued, at most 2 jobs are
\* active at the same time.
C5_BoundedConcurrency == Cardinality(ActiveJobs) <= Concurrency

\* C5 witness: two jobs are active while a third one waits
C5_Witness == Cardinality(ActiveJobs) = Concurrency /\ waitList # <<>>

\* C6: a job never has both result and failureReason; result is set only in
\* state completed and failureReason only in state failed.
C6_ResultXorFailure ==
  \A j \in Jobs :
    /\ ~(returnvalue[j] # NoResult /\ failedReason[j] # "null")
    /\ returnvalue[j] # NoResult => jobState[j] = "completed"
    /\ failedReason[j] # "null" => jobState[j] = "failed"

\* C7: the receipt update of a successful attempt stores the extracted
\* storeName, purchaseDate and totalAmount (absent or falsy values as null) and
\* leaves exactly the rows created from this attempt's items, none of the rows
\* that were there before; a job is marked completed only by an attempt that
\* has made that update.
C7_WholesaleReplace ==
  [][\A j \in Jobs :
       /\ (jpc[j] = "update" /\ jpc'[j] = "progress100") =>
            /\ record'[j].storeName = OrNull(extractedData[j].storeName)
            /\ record'[j].purchaseDate = ValidDate(extractedData[j].purchaseDate)
            /\ record'[j].totalAmount = OrNull(extractedData[j].totalAmount)
            /\ Len(record'[j].items) = Len(extractedData[j].items)
            /\ \A k \in 1..Len(record'[j].items) :
                 /\ record'[j].items[k].name = extractedData[j].items[k].name
                 /\ record'[j].items[k].src = AttemptTag(j)
       /\ (jobState[j] # "completed" /\ jobState'[j] = "completed") =>
            replacedItems[j] >= 0]_vars

\* C7 witness: an attempt's update has replaced a receipt that had rows before
C7_Witness ==
  \E j \in Jobs : /\ jpc[j] = "progress100"
                  /\ replacedItems[j] > 0
                  /\ Len(record[j].items) > 0
                  /\ \A k \in 1..Len(record[j].items) : record[j].items[k].src = AttemptTag(j)

C9_RecognitionBounded ==
  \A j \in Jobs : jpc[j] = "recognize" => elapsed[j] <= RecognitionTimeoutMs

IsPrefix(a, b) == Len(a) <= Len(b) /\ \A k \in 1..Len(a) : a[k] = b[k]

\* C10: within an attempt progress is reported in the order 10, 20, 70, 100;
\* 10 only after the file was verified, 20 before recognition starts, 70 only
\* after recognition returned, 100 only after the receipt was persisted.
C10_ProgressOrder ==
  \A j \in Jobs :
    /\ IsPrefix(reported[j], <<10, 20, 70, 100>>)
    /\ Len(reported[j]) >= 1 => fileVerified[j]
    /\ jpc[j] = "recognize" => Len(reported[j]) >= 2
    /\ Len(reported[j]) >= 3 => extractedData[j] \in ExtractedDataSet
    /\ Len(reported[j]) >= 4 => replacedItems[j] >= 0

\* C2: when the fault handler of a recognize call finishes, the adapter no
\* longer holds the instance the call faulted on (instances are never handed
\* out twice, so a later recognize call runs on a fresh one), and the
\* initialization guard is never left wedged: callers are sent to wait only on
\* an attempt that is still in flight.
C2_SelfHealing ==
  /\ [][\A c \in Callers :
         (cpc[c] = "handlerTerminate" /\ cpc'[c] = "idle") => worker' # cused[c]]_vars
  /\ [](JoinsPending => attempt[initPromise] = "pending")

\* C2 witness: with terminate() never called, an instance has been discarded
\* by a fault handler and a caller recognizes on a later, live instance
C2_Witness ==
  \E c \in Callers :
    /\ cpc[c] = "recognizing"
    /\ engine[cused[c]] = "live"
    /\ \A t \in Terminators : tpc[t] = "idle"
    /\ \E e \in InitIds : e < cused[c] /\ engine[e] = "terminated" /\ worker # e

\* C11: terminate() is idempotent and safe on an adapter that holds no
\* engine: a call that finds no engine returns at once, touches no engine and
\* leaves the adapter without one; a call that found an engine ends with the
\* reference and the initialization flags cleared; the next initialize() that
\* finds the adapter empty and no attempt to join starts a new createWorker.
C11_TerminateIdempotent ==
  /\ [][\A t \in Terminators :
         /\ (TerminateCall(t) /\ worker = 0) =>
              /\ tpc'[t] = "returned"
              /\ worker' = 0
              /\ engine' = engine
              /\ <<isInitializing', initPromise'>> = <<isInitializing, initPromise>>
         /\ (tpc[t] = "terminating" /\ tpc'[t] = "returned") =>
              /\ worker' = 0
              /\ isInitializing' = FALSE
              /\ initPromise' = 0]_vars
  /\ [][\A c \in Callers :
         (cpc[c] = "idle" /\ cpc'[c] = "awaitInit" /\ worker = 0 /\ ~JoinsPending) =>
           /\ attempt[cwait'[c]] = "unused"
           /\ attempt'[cwait'[c]] = "pending"
           /\ engine[cwait'[c]] = "none"]_vars

\* C11 witness: terminate() has returned, an engine it released is terminated,
\* the adapter holds none, and a later initialize() has a new attempt in flight
C11_Witness ==
  /\ \A t \in Terminators : tpc[t] = "returned"
  /\ worker = 0
  /\ \E p \in InitIds :
       /\ attempt[p] = "pending"
       /\ initPromise = p
       /\ \E e \in InitIds : e < p /\ engine[e] = "terminated"
       /\ \A e \in InitIds : engine[e] # "live"

\* C12: every addOCRJob call creates a job of its own: the ids handed back by
\* any two calls differ and the queue holds as many jobs as calls were made.
C12_UniqueJobIds ==
  /\ \A a, b \in 1..Len(issuedIds) : a # b => issuedIds[a] # issuedIds[b]
  /\ Cardinality(queueIds) = Len(issuedIds)

\* what the queue shows of job j
JobView(j) == <<jobState[j], attemptsStarted[j], attemptsMade[j], progress[j],
                returnvalue[j], failedReason[j], jpc[j], record[j]>>

\* C13: a failed attempt of one job (missing file, recognition or engine
\* fault, persistence fault) does not stop the worker: the process stays
\* alive, the attempt gives its slot back, no other job is touched, and the
\* worker goes on taking waiting jobs whenever it has a free slot; a job that
\* ends failed carries a failureReason.
C13_WorkerSurvives ==
  /\ [][\A j \in Jobs :
         (jpc[j] = "catch" /\ jpc'[j] = "none") =>
           /\ procExit' = "running"
           /\ j \notin ActiveJobs'
           /\ \A i \in Jobs \ {j} : JobView(i)' = JobView(i)]_vars
  /\ []((waitList # <<>> /\ CanFetch) => ENABLED MoveToActive(Head(waitList)))
  /\ [](\A j \in Jobs : jobState[j] = "failed" => failedReason[j] # "null")

\* C13 witness: one job has failed for good while another job, taken from the
\* queue, is being processed
C13_Witness ==
  \E j, i \in Jobs :
    /\ jobState[j] = "failed"
    /\ failedReason[j] # "null"
    /\ jobState[i] = "active"
    /\ jpc[i] = "recognize"

ShutdownOrder ==
  { <<"idle", "closing">>, <<"closing", "terminate">>, <<"terminate", "disconnect">>,
    <<"disconnect", "quit">>, <<"quit", "exit">> }

\* C14: a shutdown run goes through its steps in the order close, terminate,
\* disconnect, quit; once a run has begun the worker takes no new job; and the
\* run releases the engine (and does everything after it) only when no job is
\* active, in particular none in its recognition step.
C14_ShutdownOrder ==
  /\ [][\A s \in Signals :
         shutdownPc'[s] # shutdownPc[s] =>
           /\ <<shutdownPc[s], shutdownPc'[s]>> \in ShutdownOrder
           /\ shutdownPc[s] \in {"terminate", "disconnect", "quit"} =>
                /\ ActiveJobs = {}
                /\ \A j \in Jobs : jpc[j] # "recognize"]_vars
  /\ [][(\E s \in Signals : shutdownPc[s] # "idle") =>
          \A j \in Jobs : jobState'[j] = "active" => jobState[j] = "active"]_vars
  /\ [](procExit = "exit0" => ActiveJobs = {})

\* C14 witness: a shutdown run is waiting in ocrWorker.close() for a job that
\* is in its recognition step, while another job stays on the wait list
C14_Witness ==
  \E s \in Signals :
    /\ shutdownPc[s] = "closing"
    /\ waitList # <<>>
    /\ \E j \in Jobs : jobState[j] = "active" /\ jpc[j] = "recognize"

\* C15: every item parseReceiptText returns, from the header path or from
\* the fallback path, has no quantity or a quantity in 1..999, and the price
\* parsed for its line is above 0 and below 1,000,000.
C15_ItemsValidated ==
  \A i \in DOMAIN results : \A k \in DOMAIN results[i].out.items :
    LET item == results[i].out.items[k]
    IN /\ item.quantity = UndefinedNumber \/ (item.quantity >= 1 /\ item.quantity <= 999)
       /\ item.price > 0
       /\ item.price < 1000000 * Hundredths

\* a date written day/month/year with a year of four digits
DayMonthYear ==
  Rep(Digit, 1, 2) \o One({"/"}) \o Rep(Digit, 1, 2) \o One({"/"}) \o Rep(Digit, 4, 4) \o End

\* the day, month and year written are a day of the calendar
NamesCalendarDay(written) ==
  LET parts == split(written, "/")
      d == parseInt(parts[1])
      m == parseInt(parts[2])
      y == parseInt(parts[3])
  IN m \in 1..12 /\ d >= 1 /\ d <= DaysInMonth(y, m)

\* C16: a purchaseDate in the output has a year from 2000 to the year of
\* the call plus one, and a matched date that is written as a day the
\* calendar does not have (31 February) is rejected: the output's date is
\* not the one decoded from it.
C16_DateValidated ==
  \A i \in DOMAIN results :
    LET date == results[i].out.purchaseDate
        lines == linesOf(text)
    IN /\ date.kind # "invalid"
       /\ date.kind = "date" => (date.y >= 2000 /\ date.y <= results[i].year + 1)
       /\ \A n \in DOMAIN lines : \A k \in DOMAIN datePatterns :
            LET m == match(lines[n], datePatterns[k])
                written == Captured(lines[n], m, 1)
            IN (m.ok /\ testStart(DayMonthYear, written) /\ ~NamesCalendarDay(written))
                 => date # DecodeDate(written, legacyDate)

AllAbsent ==
  [threw |-> FALSE, storeName |-> Undefined, purchaseDate |-> UndefinedDate,
   totalAmount |-> UndefinedNumber, items |-> <<>>]

\* no line is long enough for any strategy and no word has text
NothingToResolve ==
  /\ \A n \in DOMAIN linesOf(text) : Len(linesOf(text)[n]) < 3
  /\ sortedWordsOf(words) = <<>>

\* C17: no call of parseReceiptText ends in an exception, with or without
\* words, and a call on an input no strategy can resolve anything from
\* returns no store name, no date, no total and no items.
C17_NeverThrows ==
  \A i \in DOMAIN results :
    /\ ~results[i].out.threw
    /\ NothingToResolve => results[i].out = AllAbsent

\* a call that found no date returned, and so did a call whose words are all
\* blank
C17_Witness ==
  /\ Len(results) > 0
  /\ results[1].out.purchaseDate.kind = "undefined"
  /\ ~results[1].out.threw
  /\ words # <<>>
  /\ NothingToResolve
  /\ results[1].out = AllAbsent

LabelWords ==
  {"DATE", "TOTAL", "SUBTOTAL", "AMOUNT", "SUM", "TAX", "SUB", "PHONE", "TEL", "TIN"}

IsLabelLine(line) ==
  \E w \in LabelWords : test(WordBoundary \o Lit(w) \o WordBoundary, line)

\* a line of 3 to 60 characters that is not a date, total, tax, phone or
\* TIN line, not a footer phrase and not digits only
StoreNameLine(line) ==
  /\ Len(line) >= 3
  /\ Len(line) <= 60
  /\ ~testStart(NumericDate, line)
  /\ ~IsLabelLine(line)
  /\ ~test(FooterPhrase, line)
  /\ ~testStart(DigitsOnly, line)

\* C19: when a TIN line is followed by such a line (the first such pair of
\* the text), storeName is that following line without the punctuation
\* other than & ' . - and no later strategy replaces it.
C19_TinStoreName ==
  \A i \in DOMAIN results :
    LET lines == linesOf(text)
    IN \A n \in 1..(Len(lines) - 1) :
         ( /\ MatchesTin(lines[n])
           /\ StoreNameLine(lines[n + 1])
           /\ \A p \in 1..(n - 1) : ~(MatchesTin(lines[p]) /\ StoreNameLine(lines[p + 1])) )
         => results[i].out.storeName = CleanStoreName(lines[n + 1])

HasLabel(line) == LabelledTotal(line, 1, UndefinedNumber) # UndefinedNumber

\* the standalone two-decimal number of a line, when it is above 0 and
\* below 100000
StandaloneOf(line) ==
  LET m == match(line, StandaloneNumber)
      amount == parseFloat(Captured(line, m, 1))
  IN IF m.ok /\ amount > 0 /\ amount < MaxStandalone * Hundredths THEN amount
     ELSE UndefinedNumber

IsCandidate(line) == HasLabel(line) \/ StandaloneOf(line) # UndefinedNumber

\* the total of the last line that holds a candidate: the number after its
\* label, or its standalone number when no label matches on it
LastCandidateTotal(lines) ==
  LET cands == {n \in DOMAIN lines : IsCandidate(lines[n])}
  IN IF cands = {} THEN UndefinedNumber
     ELSE LET n == CHOOSE c \in cands : \A d \in cands : d <= c
          IN IF HasLabel(lines[n]) THEN LabelledTotal(lines[n], 1, UndefinedNumber)
             ELSE StandaloneOf(lines[n])

\* C20: the total is taken from the last line that holds a candidate and
\* the scan stops there: the number after the label when a label matches on
\* that line, a standalone two-decimal number in (0, 100000) only when none
\* does.
C20_TotalFromLastLine ==
  \A i \in DOMAIN results :
    results[i].out.totalAmount = LastCandidateTotal(linesOf(text))

\* the keywords of the lists that keep a line or a name out of the items
MetadataVocabulary ==
  {"description", "desc", "qty", "oty", "price", "total", "amount", "sum", "tax",
   "subtotal", "cash", "item", "tin", "tel", "phone", "date", "ref", "operator",
   "waiter", "table", "erca", "address", "street", "road", "avenue", "subcity",
   "woreda", "kebele", "megenagna", "website", "www", "http"}

\* a line "<name> <q> <p>": a word of at least 3 letters that is none of the
\* keywords, an integer from 1 to 999 and a decimal above 0 and below 1,000,000
NamedItemLine(line) ==
  LET fields == split(line, " ")
  IN /\ Len(fields) = 3
     /\ testStart(Rep(Upper \cup Lower, 3, Inf) \o End, fields[1])
     /\ toLowerCase(fields[1]) \notin MetadataVocabulary
     /\ testStart(Rep(Digit, 1, 3) \o End, fields[2])
     /\ parseInt(fields[2]) >= 1
     /\ testStart(Plus(Digit) \o One({"."}) \o Plus(Digit) \o End, fields[3])
     /\ parseFloat(fields[3]) > 0
     /\ parseFloat(fields[3]) < 1000000 * Hundredths

\* the places of the items with this name and quantity in the output
PlacesOf(items, name, quantity) ==
  {k \in DOMAIN items : items[k].name = name /\ items[k].quantity = quantity}

\* the lines of the text that follow a header "Description Qty Price Amount"
\* at once, or an item line that does, and are item lines themselves
ItemLinesBelowHeader ==
  LET lines == split(text, "\n")
  IN {n \in 2..Len(lines) :
        /\ toLowerCase(lines[1]) = "description qty price amount"
        /\ \A k \in 2..n : NamedItemLine(lines[k])}

\* C21: below a header line "Description Qty Price Amount", a line
\* "<name> <q> <p>" (name a word of at least 3 letters outside the metadata
\* vocabulary, q in 1..999, p a decimal in (0, 1000000)) gives an item with
\* that name and quantity q, and the items come in the order of their lines.
C21_HeaderItems ==
  \A i \in DOMAIN results :
    LET lines == split(text, "\n")
        items == results[i].out.items
        places(n) == PlacesOf(items, split(lines[n], " ")[1],
                              parseInt(split(lines[n], " ")[2]))
    IN /\ \A n \in ItemLinesBelowHeader : places(n) # {}
       /\ \A n, m \in ItemLinesBelowHeader :
            n < m => \E a \in places(n) : \E b \in places(m) : a < b

\* the example of the specification: "Milk 2 3.99" below the header is the
\* item Milk with quantity 2, before the item of the next line
C21_Example ==
  \E i \in DOMAIN results :
    /\ text = "Description Qty Price Amount\nMilk 2 3.99\nBread 1 2.50"
    /\ PlacesOf(results[i].out.items, "Milk", 2) = {1}
    /\ PlacesOf(results[i].out.items, "Bread", 1) = {2}

\* a date written year/month/day with a year of four digits
YearMonthDay ==
  Rep(Digit, 4, 4) \o One({"/"}) \o Rep(Digit, 1, 2) \o One({"/"}) \o Rep(Digit, 1, 2) \o End

\* the calendar date three numbers denote, when it is a day of the calendar
\* with a year from 2000 to the year after thisYear
Denotes(date, y, m, d, thisYear) ==
  (y >= 2000 /\ y <= thisYear + 1 /\ m \in 1..12 /\ d >= 1 /\ d <= DaysInMonth(y, m))
    => date = DateOf(y, m, d)

\* C22: a text whose only line is a date written YYYY/MM/DD, with YYYY from
\* 2000 to the year after the call's, gives the purchaseDate with that year,
\* month and day, and one written DD/MM/YYYY is read day first.
C22_DateShapes ==
  \A i \in DOMAIN results :
    LET lines == linesOf(text)
        parts == split(lines[1], "/")
        date == results[i].out.purchaseDate
    IN Len(lines) = 1 =>
         /\ testStart(YearMonthDay, lines[1]) =>
              Denotes(date, parseInt(parts[1]), parseInt(parts[2]), parseInt(parts[3]),
                      results[i].year)
         /\ testStart(DayMonthYear, lines[1]) =>
              Denotes(date, parseInt(parts[3]), parseInt(parts[2]), parseInt(parts[1]),
                      results[i].year)

\* a date written day/month/year is read day first
C22_DayFirst ==
  \E i \in DOMAIN results :
    text = "14/08/2023" /\ results[i].out.purchaseDate = DateOf(2023, 8, 14)

\* C23: every item parseReceiptText returns has a name of at least 3 and
\* fewer than 100 characters; a candidate whose name is shorter after the
\* final clean-up of its characters is not emitted.
C23_NameLength ==
  \A i \in DOMAIN results : \A k \in DOMAIN results[i].out.items :
    /\ Len(results[i].out.items[k].name) >= 3
    /\ Len(results[i].out.items[k].name) < 100

\* C24: while only extractData calls (their initialize and their fault
\* handlers) run on the adapter, every engine instance that was created is
\* the one the adapter holds or has had terminate() called on it: no live
\* engine is left that this.worker does not point to.
C24_NoOrphanedEngine ==
  (\A t \in Terminators : tpc[t] = "idle")
    => \A p \in InitIds : engine[p] = "live" => worker = p

\* C26: while only extractData calls run on the adapter, the fault handler
\* of a recognize call terminates only the engine its own call ran on, and
\* the reference it clears afterwards is not one to a newer engine.
C26_HandlerOwnInstance ==
  [][(\A t \in Terminators : tpc[t] = "idle") =>
       \A c \in Callers :
         /\ (cpc[c] = "recognizing" /\ cpc'[c] = "handlerTerminate") => worker = cused[c]
         /\ (cpc[c] = "handlerTerminate" /\ cpc'[c] = "idle") => worker \in {0, cused[c]}]_vars

\* C25: a job whose last attempt failed on a recognition fault and that has
\* retry budget left still has its uploaded file (the receipt not having been
\* deleted by hand), so the retry attempt finds it.
C25_UploadKeptForRetry ==
  \A j \in Jobs :
    (/\ failedReason[j] = "RecognitionFault"
     /\ ShouldRetry(attemptsMade[j])
     /\ jobState[j] \in {"delayed", "waiting", "active"}
     /\ record[j].exists)
      => fs[j] # {}

\* the fields of a receipt that no attempt of the worker has written: what
\* the placeholder had, or what a hand edit put there
UntouchedByWorker(r) ==
  /\ r.storeName \in {"null", "EDITED"}
  /\ r.purchaseDate = "null"
  /\ r.totalAmount = "null"
  /\ \A k \in DOMAIN r.items : r.items[k].src = 0

\* C27: the receipt of a job that ended failed holds nothing the worker
\* wrote: its store name, date, total and items are those of the placeholder
\* (or of a hand edit).
C27_FailedKeepsPlaceholder ==
  \A j \in Jobs :
    (jobState[j] = "failed" /\ record[j].exists) => UntouchedByWorker(record[j])

\* C28: when an initialization during which terminate() was called resolves
\* and no terminate() call is still running, so that both calls have
\* settled, the adapter holds no engine and the engine that initialization
\* created is not left live.
C28_NoEngineAfterShutdown ==
  [][\A p \in calledDuring :
       (/\ attempt[p] = "pending" /\ attempt'[p] = "resolved"
        /\ \A t \in Terminators : tpc[t] # "terminating")
         => (worker' = 0 /\ engine'[p] # "live")]_vars

\* C29: the progress of a job never goes down, retries included; a
\* completed job has progress 100 and a failed job has progress below 100.
C29_ProgressMonotonic ==
  /\ [][\A j \in Jobs : progress'[j] >= progress[j]]_vars
  /\ [](\A j \in Jobs :
          /\ jobState[j] = "completed" => progress[j] = 100
          /\ jobState[j] = "failed" => progress[j] < 100)

\* ---------------------------------------------------------------------
\* The running worker under fair scheduling
\* ---------------------------------------------------------------------
\* what the worker process and its timers do next: BullMQ hands a waiting
\* job to a free slot, promotes a delayed job when its backoff has passed,
\* and the event loop resumes a processor whose awaited call has settled
\* (returned or faulted); faults of the queue connection while progress is
\* reported are left to Spec
WorkerStep ==
  \/ \E j \in Jobs : MoveToActive(j)
  \/ \E j \in Jobs : UpdateProgress(j)
  \/ \E j \in Jobs : ResolveFile(j)
  \/ \E j \in Jobs, d \in ExtractedDataSet : ExtractDataReturns(j, d)
  \/ \E j \in Jobs : ExtractDataFaults(j)
  \/ \E j \in Jobs : ReceiptUpdate(j)
  \/ \E j \in Jobs : ReceiptUpdateFaults(j)
  \/ \E j \in Jobs : ReturnResult(j)
  \/ \E j \in Jobs : CatchAndRethrow(j)
  \/ \E j \in Jobs : DelayElapsed(j)

NextLive ==
  \/ \E j \in Jobs : AddOCRJob(j)
  \/ WorkerStep

\* uploads arrive when they arrive; the worker process keeps running and
\* every call it awaits settles, so a step of the worker that stays possible
\* is taken
SpecLive == Init /\ [][NextLive]_vars /\ WF_vars(WorkerStep)

Unfinished(j) == jobState[j] \in {"waiting", "delayed", "active"}

Finished(j) == jobState[j] \in {"completed", "failed"}

\* C30: with a running worker that is scheduled fairly and calls that all
\* return or fault, every enqueued job ends completed or failed.
C30_EveryJobFinishes ==
  \A j \in Jobs : Unfinished(j) ~> Finished(j)

\* one job has completed and another has used up its attempts and failed
C30_Witness ==
  \E j, k \in Jobs :
    /\ jobState[j] = "completed"
    /\ jobState[k] = "failed" /\ attemptsMade[k] = Attempts
====
